---------------------------- MODULE Spec2Model ----------------------------
(***************************************************************************)
(* A model of the link-time passes of passes.cc.  The passes run one after *)
(* another; each group of passes the properties are about is a             *)
(* specification of its own over its own variables:                       *)
(*                                                                         *)
(*   SpecLayout   set_osec_offsets, fix_synthetic_symbols                  *)
(*   SpecResolve  set_file_priority, resolve_obj_symbols                   *)
(*   SpecLive     the same, then resolve_dso_symbols                       *)
(*   SpecComdat   eliminate_comdats                                        *)
(*   SpecDup      check_duplicate_symbols                                  *)
(*   SpecSymver   parse_symbol_version                                     *)
(*   SpecExport   compute_import_export                                    *)
(*   SpecVertab   fill_verdef, fill_verneed                                *)
(*   SpecBin      bin_sections                                             *)
(*   SpecSize     compute_section_sizes                                    *)
(*   SpecScan     scan_rels                                                *)
(*   SpecScript   apply_version_script                                     *)
(*   SpecPasses   the passes from check_duplicate_symbols to               *)
(*                set_osec_offsets, in the order they run                  *)
(*   SpecSkew     align_with_skew, alone and within set_osec_offsets       *)
(*   SpecPad      set_osec_offsets, then clear_padding                     *)
(*   SpecSlices   the slicing of ctx.objs in bin_sections                  *)
(*                                                                         *)
(* The variables of the other groups stay at their idle value.             *)
(***************************************************************************)
EXTENDS Integers, Naturals, Sequences, FiniteSets, TLC

(* State of the output chunks: set_osec_offsets, fix_synthetic_symbols. *)
VARIABLES
  chunks,       \* ctx.chunks: sequence of OutputChunk records
  image_base,   \* ctx.arg.image_base
  fileoff,      \* set_osec_offsets: local fileoff
  vaddr,        \* set_osec_offsets: local vaddr
  chunk_vaddr,  \* history: the value of vaddr when each chunk's offset was set
  lpc,          \* position in the pass sequence of the layout group
  synth,        \* the linker-defined symbols bound by fix_synthetic_symbols
  interned      \* the symbols fix_synthetic_symbols interns, by name

layoutVars ==
  <<chunks, image_base, fileoff, vaddr, chunk_vaddr, lpc, synth, interned>>

(* State of the input files and symbols, shared by the passes over them. *)
VARIABLES
  objs,         \* ctx.objs: sequence of object files
  dsos,         \* ctx.dsos: sequence of shared libraries
  sym,          \* the interned Symbol of each name (the fields the passes
                \* of the specification at hand use)
  errors,       \* the errors recorded (Error(ctx) << ...)
  todo          \* per task of the running parallel loop: the index of the
                \* next item it handles (1 for a task run in one step), 0
                \* when it has none (left)

ctxVars == <<objs, dsos, sym, errors, todo>>

(* set_file_priority, resolve_obj_symbols, check_duplicate_symbols. *)
VARIABLES
  is_in_lib,    \* ObjectFile::is_in_lib, per object
  elf_syms,     \* ObjectFile::elf_syms: per object and global name, the kind
                \* of its ELF symbol ("none": the object has no such symbol)
  undefined,    \* ctx.arg.undefined: sequence of names
  priority,     \* InputFile::priority, per file
  is_alive,     \* InputFile::is_alive, per file
  rpc,          \* position in the pass sequence of this group
  submits,      \* history: how often each file was handed to parallel_do
  dso_syms,     \* SharedFile::symbols: per DSO, the names it defines
  sym_is_weak   \* Symbol::is_weak of each name while a DSO owns it

resolveVars ==
  <<is_in_lib, elf_syms, undefined, priority, is_alive, rpc, submits,
    dso_syms, sym_is_weak>>

(* parse_symbol_version, compute_import_export, fill_verdef, fill_verneed. *)
VARIABLES
  arg,          \* ctx.arg: the options these passes read
  symvers,      \* ObjectFile::symvers: per object and global name, the
                \* version suffix of the symbol, or NULL
  undefs,       \* SharedFile::undefs: per DSO, the names it refers to
  dynsym,       \* ctx.dynsym->symbols, indexed from 0, entry 0 the null one
  versym,       \* ctx.versym->contents, indexed from 0
  verdef,       \* the Verdef entries written to ctx.verdef->contents
  verneed,      \* the Verneed groups written to ctx.verneed->contents
  vpc           \* position in the pass sequence of this group

verVars == <<arg, symvers, undefs, dynsym, versym, verdef, verneed, vpc>>

(* bin_sections. *)
VARIABLES
  sections,     \* ObjectFile::sections: per object, a sequence of output
                \* section indices, NULL for a null entry
  groups,       \* bin_sections: groups[i][j], per slice and output section
  sizes,        \* bin_sections: sizes[j]
  members,      \* OutputSection::members, per output section
  bpc           \* position in bin_sections

binVars == <<sections, groups, sizes, members, bpc>>

(* scan_rels and the order of the passes. *)
VARIABLES
  symbols,      \* InputFile::symbols: per file, the sequence of the names
                \* of its symbols
  relocs,       \* per object and name, the flags its relocations against
                \* the symbol ask for
  readonly,     \* the names for which SharedFile::is_readonly holds
  vec,          \* scan_rels: vec[i], the flagged symbols of files[i]
  tables,       \* the symbols of .got, .plt, .plt.got, .dynbss and
                \* .dynbss.rel.ro, in the order they were added
  ppc           \* position in scan_rels and in the sequence of passes

scanVars == <<symbols, relocs, readonly, vec, tables, ppc>>

(* compute_section_sizes. *)
VARIABLES
  osec_shdr,    \* OutputSection::shdr, per output section: sh_size and
                \* sh_addralign
  size,         \* compute_section_sizes: size[i], per output section
  alignments,   \* compute_section_sizes: alignments[i], per output section
  slice_start,  \* compute_section_sizes: start[i], per output section
  cpc           \* position in compute_section_sizes, per output section

sizeVars == <<osec_shdr, size, alignments, slice_start, cpc>>

(* apply_version_script. *)
VARIABLES
  elem          \* apply_version_script: 1-based position in
                \* ctx.arg.version_patterns of the entry being applied

scriptVars == <<elem>>

(* eliminate_comdats. *)
VARIABLES
  comdat_groups, \* ObjectFile::comdat_groups, per object: the keys of its
                 \* COMDAT groups, in section order
  comdat_owner,  \* the registry: per key, the object the key resolved to
  kept,          \* per object, the positions in comdat_groups of the
                 \* groups whose sections are not disabled
  tpc            \* per object, the position of its tasks in the two loops

comdatVars == <<comdat_groups, comdat_owner, kept, tpc>>

(* align_with_skew and clear_padding. *)
VARIABLES
  aws,          \* a call of align_with_skew: its arguments val, align and
                \* skew and, once it has returned, its result n
  memsets       \* clear_padding: the calls of memset in the order they
                \* were made, each with its offset pos in ctx.buf and its
                \* length len

(* split, as bin_sections calls it. *)
VARIABLES
  span,         \* split: what is left of input
  split_vec,    \* split: vec, the slices pushed so far
  spc           \* split: "idle", "while" or "returned"

sliceVars == <<span, split_vec, spc>>

restVars == <<aws, memsets, sliceVars>>

moreVars == <<scriptVars, comdatVars, restVars>>

extraVars == <<scanVars, sizeVars, moreVars>>

vars == <<layoutVars, ctxVars, resolveVars, verVars, binVars, extraVars>>

Max(a, b) == IF a >= b THEN a ELSE b

RECURSIVE SeqsUpTo(_, _)
\* All sequences over S of length 0..n.
SeqsUpTo(S, n) ==
  IF n = 0 THEN {<< >>}
  ELSE LET shorter == SeqsUpTo(S, n - 1)
       IN  shorter \cup {Append(s, x) : s \in {t \in shorter : Len(t) = n - 1}, x \in S}

(***************************************************************************)
(* Output chunks: set_osec_offsets and fix_synthetic_symbols.              *)
(***************************************************************************)
PAGE_SIZE == 4096

\* Largest number of output chunks in a modelled link.
MaxChunks == 2

SHT_PROGBITS == "SHT_PROGBITS"
SHT_NOBITS == "SHT_NOBITS"
SHT_INIT_ARRAY == "SHT_INIT_ARRAY"
SHT_FINI_ARRAY == "SHT_FINI_ARRAY"
SHF_ALLOC == "SHF_ALLOC"
SHF_WRITE == "SHF_WRITE"
SHF_TLS == "SHF_TLS"

\* A name is the sequence of its characters.
DotBss == <<".", "b", "s", "s">>

\* sh_type, sh_flags and name of the modelled chunks: data named d_1, a
\* non-allocated section of that name, .bss, .tbss, .i (an .init_array)
\* and .f (a .fini_array).
ChunkKinds ==
  { <<SHT_PROGBITS, {SHF_ALLOC}, <<"d", "_", "1">> >>,
    <<SHT_PROGBITS, {}, <<"d", "_", "1">> >>,
    <<SHT_NOBITS, {SHF_ALLOC, SHF_WRITE}, DotBss>>,
    <<SHT_NOBITS, {SHF_ALLOC, SHF_WRITE, SHF_TLS}, <<".", "t", "b", "s", "s">> >>,
    <<SHT_INIT_ARRAY, {SHF_ALLOC, SHF_WRITE}, <<".", "i">> >>,
    <<SHT_FINI_ARRAY, {SHF_ALLOC, SHF_WRITE}, <<".", "f">> >> }

ChunkSizes == {0, 32}
\* sh_addralign, new_page, new_page_end: a small alignment with each hint,
\* and an alignment larger than PAGE_SIZE.
ChunkPlacements ==
  { <<16, FALSE, FALSE>>, <<16, TRUE, FALSE>>, <<16, FALSE, TRUE>>,
    <<8192, FALSE, FALSE>> }
\* A page-aligned image base and one that is not.
ImageBases == {4194304, 16}

\* An OutputChunk as the earlier passes hand it over: sh_offset and sh_addr
\* are still zero.
ChunkInputs ==
  { [sh_type |-> k[1], sh_flags |-> k[2], sh_size |-> sz, sh_addralign |-> p[1],
     new_page |-> p[2], new_page_end |-> p[3], sh_offset |-> 0, sh_addr |-> 0,
     name |-> k[3], kind |-> "REGULAR"]
    : k \in ChunkKinds, sz \in ChunkSizes, p \in ChunkPlacements }

\* u64 arithmetic wraps.  The words of the model are 30 bits wide instead
\* of 64, so that the sum of two of them is a number the model checker can
\* hold; every alignment is a power of two far below either modulus.
WordSize == 1073741824
u64(x) == x % WordSize

\* mold.h align_to: val rounded up to a multiple of the power of two align.
align_to(val, align) ==
  IF align = 0 THEN val ELSE (u64(val + align - 1) \div align) * align

\* val rounded up to a multiple of align, skew added afterwards.
align_then_skew(val, align, skew) == u64(align_to(val, align) + skew)

\* u64 align_with_skew(u64 val, u64 align, u64 skew)
align_with_skew(val, align, skew) ==
  u64(align_to(u64(val + align - skew), align) - align + skew)

\* shndx of the i-th chunk: the chunks are numbered in list order.
ChunkShndx(i) == i

(* set_osec_offsets, the body of the loop for one chunk, in three parts. *)

\* vaddr at which the chunk is placed.
PlaceVaddr(chunk, va) ==
  align_to(IF chunk.new_page THEN align_to(va, PAGE_SIZE) ELSE va,
           chunk.sh_addralign)

\* File offset at which the chunk is placed, given its vaddr.
PlaceFileoff(chunk, fo, va) == align_with_skew(fo, PAGE_SIZE, va % PAGE_SIZE)

\* fileoff after the chunk placed at fo.
AdvanceFileoff(chunk, fo) ==
  LET is_bss == chunk.sh_type = SHT_NOBITS
  IN  IF ~is_bss THEN fo + chunk.sh_size ELSE fo

\* AdvanceVaddr with the test of SHF_TLS left out: no NOBITS chunk takes
\* address space.
AdvanceVaddrSkipBss(chunk, va) ==
  LET is_bss == chunk.sh_type = SHT_NOBITS
      v == IF ~is_bss THEN va + chunk.sh_size ELSE va
  IN  IF chunk.new_page_end THEN align_to(v, PAGE_SIZE) ELSE v

\* vaddr after the chunk placed at va.
AdvanceVaddr(chunk, va) ==
  LET is_bss == chunk.sh_type = SHT_NOBITS
      is_tbss == is_bss /\ SHF_TLS \in chunk.sh_flags
      v == IF ~is_tbss THEN va + chunk.sh_size ELSE va
  IN  IF chunk.new_page_end THEN align_to(v, PAGE_SIZE) ELSE v

RECURSIVE OsecLoop(_, _, _, _, _)
\* The loop of set_osec_offsets from chunk i on: the chunks, the vaddr
\* each was placed at, and the final fileoff and vaddr.
OsecLoop(cs, i, fo, va, hist) ==
  IF i > Len(cs) THEN [chunks |-> cs, fileoff |-> fo, vaddr |-> va, hist |-> hist]
  ELSE LET chunk == cs[i]
           v == PlaceVaddr(chunk, va)
           f == PlaceFileoff(chunk, fo, v)
           placed == [chunk EXCEPT
                        !.sh_offset = f,
                        !.sh_addr = IF SHF_ALLOC \in chunk.sh_flags THEN v ELSE @]
       IN  OsecLoop([cs EXCEPT ![i] = placed], i + 1,
                    AdvanceFileoff(chunk, f), AdvanceVaddr(chunk, v),
                    Append(hist, v))

NoSym == [shndx |-> 0, value |-> 0]

\* The symbols of ctx that fix_synthetic_symbols binds from ctx.chunks.
\* ctx.relplt, ctx.dynamic, ctx.gotplt and ctx.eh_frame_hdr are not among
\* the modelled chunks: __rela_iplt_start, __rela_iplt_end, _DYNAMIC,
\* _GLOBAL_OFFSET_TABLE_ and __GNU_EH_FRAME_HDR are left out.
SynthNames == {"__init_array_start", "__init_array_end",
               "__fini_array_start", "__fini_array_end",
               "__bss_start", "__ehdr_start", "__executable_start",
               "_end", "_etext", "_edata"}

SHF_EXECINSTR == "SHF_EXECINSTR"

\* The lambdas start and stop of fix_synthetic_symbols.
start(sy, cs, i) == [sy EXCEPT !.shndx = ChunkShndx(i), !.value = cs[i].sh_addr]
stop(sy, cs, i) ==
  [sy EXCEPT !.shndx = ChunkShndx(i), !.value = cs[i].sh_addr + cs[i].sh_size]

RECURSIVE InitFiniLoop(_, _, _)
\* The loop of fix_synthetic_symbols over ctx.chunks that binds
\* __{init,fini}_array_{start,end}, from chunk i on.
InitFiniLoop(sy, cs, i) ==
  IF i > Len(cs) THEN sy
  ELSE InitFiniLoop(
         CASE cs[i].sh_type = SHT_INIT_ARRAY ->
                [sy EXCEPT !["__init_array_start"] = start(@, cs, i),
                           !["__init_array_end"] = stop(@, cs, i)]
           [] cs[i].sh_type = SHT_FINI_ARRAY ->
                [sy EXCEPT !["__fini_array_start"] = start(@, cs, i),
                           !["__fini_array_end"] = stop(@, cs, i)]
           [] OTHER -> sy,
         cs, i + 1)

RECURSIVE BssStartLoop(_, _, _)
\* The loop that binds __bss_start to the first regular chunk named .bss.
BssStartLoop(sy, cs, i) ==
  IF i > Len(cs) THEN sy
  ELSE IF cs[i].kind = "REGULAR" /\ cs[i].name = DotBss
  THEN [sy EXCEPT !["__bss_start"] = start(@, cs, i)]
  ELSE BssStartLoop(sy, cs, i + 1)

\* ctx.ehdr->shdr.sh_addr: the ELF header is the first thing in the image.
EhdrAddr == image_base

\* The loop that binds __ehdr_start and __executable_start if a chunk has
\* shndx 1.
EhdrStartLoop(sy, cs) ==
  IF \E i \in 1..Len(cs) : ChunkShndx(i) = 1
  THEN [sy EXCEPT !["__ehdr_start"] = [shndx |-> 1, value |-> EhdrAddr],
                  !["__executable_start"] = [shndx |-> 1, value |-> EhdrAddr]]
  ELSE sy

RECURSIVE EndLoop(_, _, _)
\* The loop that binds _end, _etext and _edata, from chunk i on.
EndLoop(sy, cs, i) ==
  IF i > Len(cs) THEN sy
  ELSE IF cs[i].kind = "HEADER" THEN EndLoop(sy, cs, i + 1)
  ELSE LET s1 == IF SHF_ALLOC \in cs[i].sh_flags
                 THEN [sy EXCEPT !["_end"] = stop(@, cs, i)] ELSE sy
           s2 == IF SHF_EXECINSTR \in cs[i].sh_flags
                 THEN [s1 EXCEPT !["_etext"] = stop(@, cs, i)] ELSE s1
           s3 == IF cs[i].sh_type # SHT_NOBITS /\ SHF_ALLOC \in cs[i].sh_flags
                 THEN [s2 EXCEPT !["_edata"] = stop(@, cs, i)] ELSE s2
       IN  EndLoop(s3, cs, i + 1)

Letters == {"a", "d", "b", "s", "t", "i", "f"}
Digits == {"1"}

\* is_c_identifier(name): a letter or '_', then letters, digits or '_'.
is_c_identifier(name) ==
  /\ Len(name) > 0
  /\ name[1] \in Letters \cup {"_"}
  /\ \A i \in 1..Len(name) : name[i] \in Letters \cup Digits \cup {"_"}

\* Symbol<E>::intern(ctx, name): the symbol of that name, made if new.
intern(tab, name) ==
  IF name \in DOMAIN tab THEN tab
  ELSE [n \in DOMAIN tab \cup {name} |-> IF n = name THEN NoSym ELSE tab[n]]

\* The loop over the chunks with every chunk taken for a C identifier.
RECURSIVE StartStopLoopAnyName(_, _, _)
StartStopLoopAnyName(tab, cs, i) ==
  IF i > Len(cs) THEN tab
  ELSE LET sym1 == <<"__start_">> \o cs[i].name
           sym2 == <<"__stop_">> \o cs[i].name
           t == intern(intern(tab, sym1), sym2)
       IN  StartStopLoopAnyName([t EXCEPT ![sym1] = start(@, cs, i),
                                          ![sym2] = stop(@, cs, i)], cs, i + 1)

RECURSIVE StartStopLoop(_, _, _)
\* The loop that interns and binds __start_<name> and __stop_<name>, from
\* chunk i on.
StartStopLoop(tab, cs, i) ==
  IF i > Len(cs) THEN tab
  ELSE IF is_c_identifier(cs[i].name)
  THEN LET sym1 == <<"__start_">> \o cs[i].name
           sym2 == <<"__stop_">> \o cs[i].name
           t == intern(intern(tab, sym1), sym2)
       IN  StartStopLoop([t EXCEPT ![sym1] = start(@, cs, i),
                                   ![sym2] = stop(@, cs, i)], cs, i + 1)
  ELSE StartStopLoop(tab, cs, i + 1)

\* The groups of variables a specification does not use stay idle.
IdleCtx ==
  objs = << >> /\ dsos = << >> /\ sym = << >> /\ errors = {} /\ todo = << >>

IdleResolve ==
  /\ is_in_lib = << >> /\ elf_syms = << >> /\ undefined = << >>
  /\ priority = << >> /\ is_alive = << >> /\ rpc = "idle" /\ submits = << >>
  /\ dso_syms = << >> /\ sym_is_weak = << >>

IdleVer ==
  /\ arg = << >> /\ symvers = << >> /\ undefs = << >> /\ dynsym = << >>
  /\ versym = << >> /\ verdef = << >> /\ verneed = << >> /\ vpc = "idle"

IdleBin ==
  /\ sections = << >> /\ groups = << >> /\ sizes = << >> /\ members = << >>
  /\ bpc = "idle"

IdleScan ==
  /\ symbols = << >> /\ relocs = << >> /\ readonly = {} /\ vec = << >>
  /\ tables = << >> /\ ppc = "idle"

IdleSize ==
  /\ osec_shdr = << >> /\ size = << >> /\ alignments = << >>
  /\ slice_start = << >>
  /\ cpc = << >>

IdleScript == elem = 0

IdleComdat ==
  /\ comdat_groups = << >> /\ comdat_owner = << >> /\ kept = << >>
  /\ tpc = << >>

IdleSlices == span = << >> /\ split_vec = << >> /\ spc = "idle"

IdleRest == aws = << >> /\ memsets = << >> /\ IdleSlices

IdleMore == IdleScript /\ IdleComdat /\ IdleRest

IdleExtra == IdleScan /\ IdleSize /\ IdleMore

IdleLayout ==
  /\ chunks = << >> /\ image_base = 0 /\ fileoff = 0 /\ vaddr = 0
  /\ chunk_vaddr = << >> /\ lpc = "idle" /\ synth = << >>
  /\ interned = << >>

InitLayout ==
  /\ chunks \in {s \in SeqsUpTo(ChunkInputs, MaxChunks) : Len(s) >= 1}
  /\ image_base \in ImageBases
  /\ fileoff = 0
  /\ vaddr = 0
  /\ chunk_vaddr = << >>
  /\ lpc = "set_osec_offsets"
  /\ synth = [n \in SynthNames |-> NoSym]
  /\ interned = << >>

\* i64 set_osec_offsets(ctx)
set_osec_offsets ==
  /\ lpc = "set_osec_offsets"
  /\ LET r == OsecLoop(chunks, 1, 0, image_base, << >>)
     IN  /\ chunks' = r.chunks
         /\ fileoff' = r.fileoff
         /\ vaddr' = r.vaddr
         /\ chunk_vaddr' = r.hist
  /\ lpc' = "fix_synthetic_symbols"
  /\ UNCHANGED <<image_base, synth, interned>>
  /\ UNCHANGED <<ctxVars, resolveVars, verVars, binVars, extraVars>>

\* void fix_synthetic_symbols(ctx)
fix_synthetic_symbols ==
  /\ lpc = "fix_synthetic_symbols"
  /\ synth' = EndLoop(InitFiniLoop(EhdrStartLoop(
                 BssStartLoop(synth, chunks, 1), chunks), chunks, 1), chunks, 1)
  /\ interned' = StartStopLoop(interned, chunks, 1)
  /\ lpc' = "done"
  /\ UNCHANGED <<chunks, image_base, fileoff, vaddr, chunk_vaddr>>
  /\ UNCHANGED <<ctxVars, resolveVars, verVars, binVars, extraVars>>

NextLayout ==
  \/ set_osec_offsets
  \/ fix_synthetic_symbols

StartLayout == InitLayout /\ IdleCtx /\ IdleResolve /\ IdleVer /\ IdleBin /\ IdleExtra

SpecLayout == StartLayout /\ [][NextLayout]_vars

OffsetsSet == lpc \in {"fix_synthetic_symbols", "done"}

IsAlloc(c) == SHF_ALLOC \in c.sh_flags
IsTbss(c) == c.sh_type = SHT_NOBITS /\ SHF_TLS \in c.sh_flags

\* C1: after set_osec_offsets every chunk has sh_offset a multiple of its
\* sh_addralign, sh_offset congruent to the vaddr it was placed at modulo
\* PAGE_SIZE and, if SHF_ALLOC, sh_addr a multiple of sh_addralign.
C1_LayoutAlignment ==
  OffsetsSet =>
    \A i \in 1..Len(chunks) :
      /\ chunks[i].sh_offset % chunks[i].sh_addralign = 0
      /\ chunks[i].sh_offset % PAGE_SIZE = chunk_vaddr[i] % PAGE_SIZE
      /\ IsAlloc(chunks[i]) => chunks[i].sh_addr % chunks[i].sh_addralign = 0

\* What of C1 the code does establish: the congruence modulo PAGE_SIZE, the
\* alignment of sh_addr, and the alignment of sh_offset for sh_addralign up
\* to PAGE_SIZE.
C1_Holds ==
  OffsetsSet =>
    \A i \in 1..Len(chunks) :
      /\ chunks[i].sh_addralign <= PAGE_SIZE
           => chunks[i].sh_offset % chunks[i].sh_addralign = 0
      /\ chunks[i].sh_offset % PAGE_SIZE = chunk_vaddr[i] % PAGE_SIZE
      /\ IsAlloc(chunks[i]) => chunks[i].sh_addr % chunks[i].sh_addralign = 0
           /\ chunks[i].sh_addr = chunk_vaddr[i]

\* C2 as stated: allocated chunks never overlap in the address space,
\* whatever their type and flags.
C2_NoOverlapAnyType ==
  OffsetsSet =>
    \A i, j \in 1..Len(chunks) :
      (i < j /\ IsAlloc(chunks[i]) /\ IsAlloc(chunks[j]))
        => chunks[i].sh_addr + chunks[i].sh_size <= chunks[j].sh_addr

\* C2 amended: an allocated chunk X that is not .tbss (NOBITS with SHF_TLS)
\* ends at or before the address of every allocated chunk Y after it.
C2_NoOverlap ==
  OffsetsSet =>
    \A i, j \in 1..Len(chunks) :
      (i < j /\ IsAlloc(chunks[i]) /\ IsAlloc(chunks[j]) /\ ~IsTbss(chunks[i]))
        => chunks[i].sh_addr + chunks[i].sh_size <= chunks[j].sh_addr

\* C2 witness: laid out, an allocated .bss of non-zero size before another
\* allocated chunk.
C2_Witness ==
  /\ OffsetsSet
  /\ \E i, j \in 1..Len(chunks) :
       /\ i < j /\ IsAlloc(chunks[i]) /\ IsAlloc(chunks[j])
       /\ chunks[i].sh_type = SHT_NOBITS /\ ~IsTbss(chunks[i])
       /\ chunks[i].sh_size > 0

FirstOfType(t) ==
  IF \E i \in 1..Len(chunks) : chunks[i].sh_type = t
  THEN CHOOSE i \in 1..Len(chunks) :
         /\ chunks[i].sh_type = t
         /\ \A j \in 1..(i - 1) : chunks[j].sh_type # t
  ELSE 0

BoundTo(startName, endName, i) ==
  /\ synth[startName].value = chunks[i].sh_addr
  /\ synth[endName].value = chunks[i].sh_addr + chunks[i].sh_size

\* C10: after fix_synthetic_symbols __init_array_start/end are the bounds
\* of the first SHT_INIT_ARRAY chunk and __fini_array_start/end those of the
\* first SHT_FINI_ARRAY chunk.
C10_FirstInitFini ==
  lpc = "done" =>
    /\ FirstOfType(SHT_INIT_ARRAY) # 0
         => BoundTo("__init_array_start", "__init_array_end",
                    FirstOfType(SHT_INIT_ARRAY))
    /\ FirstOfType(SHT_FINI_ARRAY) # 0
         => BoundTo("__fini_array_start", "__fini_array_end",
                    FirstOfType(SHT_FINI_ARRAY))

StartName(i) == <<"__start_">> \o chunks[i].name
StopName(i) == <<"__stop_">> \o chunks[i].name

\* __start_<name> and __stop_<name> exist and hold the bounds of chunk i.
Brackets(i) ==
  /\ StartName(i) \in DOMAIN interned /\ StopName(i) \in DOMAIN interned
  /\ interned[StartName(i)] =
       [shndx |-> ChunkShndx(i), value |-> chunks[i].sh_addr]
  /\ interned[StopName(i)] =
       [shndx |-> ChunkShndx(i), value |-> chunks[i].sh_addr + chunks[i].sh_size]

\* C11 as stated: after fix_synthetic_symbols every chunk whose name is a
\* C identifier has __start_<name> and __stop_<name> bound to its shndx and
\* bounds, and a chunk whose name is none has no such symbols.
C11_StartStopEveryChunk ==
  lpc = "done" =>
    \A i \in 1..Len(chunks) :
      IF is_c_identifier(chunks[i].name) THEN Brackets(i)
      ELSE StartName(i) \notin DOMAIN interned /\ StopName(i) \notin DOMAIN interned

\* C11 amended: the symbols hold the shndx and bounds of the last chunk of
\* ctx.chunks with that name, so of every chunk whose name no later chunk
\* shares; start <= stop; a chunk whose name is no C identifier has none.
C11_StartStopLastOfName ==
  lpc = "done" =>
    \A i \in 1..Len(chunks) :
      IF is_c_identifier(chunks[i].name)
      THEN /\ StartName(i) \in DOMAIN interned /\ StopName(i) \in DOMAIN interned
           /\ interned[StartName(i)].value <= interned[StopName(i)].value
           /\ (\A j \in (i + 1)..Len(chunks) : chunks[j].name # chunks[i].name)
                => Brackets(i)
      ELSE StartName(i) \notin DOMAIN interned /\ StopName(i) \notin DOMAIN interned

\* C11 witness: a chunk named d_1 of non-zero size and address followed by
\* .bss; only __start_d_1 and __stop_d_1 were interned.
C11_Witness ==
  /\ lpc = "done"
  /\ Len(chunks) = 2
  /\ is_c_identifier(chunks[1].name) /\ ~is_c_identifier(chunks[2].name)
  /\ chunks[1].sh_size > 0 /\ chunks[1].sh_addr > 0
  /\ Brackets(1)
  /\ DOMAIN interned = {StartName(1), StopName(1)}

(***************************************************************************)
(* Input files and symbols: set_file_priority, resolve_obj_symbols.        *)
(***************************************************************************)
NULL == "NULL"

InputObjs == <<"a.o", "b.o", "c.o">>
InputDsos == <<"x.so", "y.so">>
SymOrder == <<"foo", "bar">>

Range(q) == {q[i] : i \in 1..Len(q)}
ObjNames == Range(InputObjs)
DsoNames == Range(InputDsos)
FileNames == ObjNames \cup DsoNames
SymNames == Range(SymOrder)

\* ElfSym: how an object's symbol table mentions a global name.
ESymKinds == {"none", "undef", "weak_undef", "def", "weak_def", "common"}
esym_is_defined(k) == k \in {"def", "weak_def", "common", "abs", "def_discarded"}
esym_is_weak(k) == k \in {"weak_def", "weak_undef"}
esym_is_common(k) == k = "common"
esym_is_abs(k) == k = "abs"

\* The symbol tables of the modelled objects: any kind for foo; bar is
\* absent, referenced or defined.
ObjSymtabs ==
  {t \in [SymNames -> ESymKinds] : t["bar"] \in {"none", "undef", "def"}}

\* Symbol<E> as constructed, and after Symbol::clear().
NoSymbol == [file |-> NULL, is_lazy |-> FALSE, esym |-> "none"]

\* Index of the first global at or after i of object f whose kind is in ks;
\* 0 if there is none.
NextIdx(f, i, ks) ==
  LET c == {j \in i..Len(SymOrder) : elf_syms[f][SymOrder[j]] \in ks}
  IN  IF c = {} THEN 0 ELSE CHOOSE j \in c : \A k \in c : j <= k

\* Priorities handed out in input order, archive members not set apart.
FilePriorityInputOrder(os, ds, lib) ==
  LET order == os \o ds
  IN  [f \in Range(order) |-> 1 + CHOOSE i \in 1..Len(order) : order[i] = f]

\* set_file_priority: 2, 3, ... to the objects not from an archive, then to
\* the archive members, then to the DSOs, each in input order.
FilePriority(os, ds, lib) ==
  LET NotLib(f) == ~lib[f]
      InLib(f) == lib[f]
      order == SelectSeq(os, NotLib) \o SelectSeq(os, InLib) \o ds
  IN  [f \in Range(order) |-> 1 + CHOOSE i \in 1..Len(order) : order[i] = f]

\* Strength of a definition: strong, weak, common.
KindRank(k) == CASE k = "weak_def" -> 1 [] k = "common" -> 2 [] OTHER -> 0

\* get_rank of a definition of kind k in file f, and of a symbol's binding:
\* a pair compared lexicographically, smaller is stronger.
DefRank(f, k) == <<KindRank(k), priority[f]>>
SymRank(sy) ==
  IF sy.file = NULL THEN <<4, 0>>
  ELSE IF sy.is_lazy THEN <<3, priority[sy.file]>>
  ELSE <<KindRank(sy.esym), priority[sy.file]>>
RankLess(a, b) == a[1] < b[1] \/ (a[1] = b[1] /\ a[2] < b[2])

\* ObjectFile::maybe_override_symbol, with sym.mu held.
maybe_override_symbol(sy, f, k) ==
  IF RankLess(DefRank(f, k), SymRank(sy))
  THEN [file |-> f, is_lazy |-> FALSE, esym |-> k]
  ELSE sy

\* The body of ObjectFile::resolve_lazy_symbols for one global, with sym.mu
\* held.
resolve_lazy_symbol(sy, f) ==
  LET is_new == sy.file = NULL
      tie_but_higher_priority == sy.file # NULL /\ sy.is_lazy
                                 /\ priority[f] < priority[sy.file]
  IN  IF is_new \/ tie_but_higher_priority
      THEN [file |-> f, is_lazy |-> TRUE, esym |-> "none"]
      ELSE sy

DefinedKinds == {"def", "weak_def", "common"}

\* The globals a task of each parallel loop of resolve_obj_symbols touches.
LazyKinds(f) == IF is_in_lib[f] THEN DefinedKinds ELSE {}
RegularKinds(f) == IF ~is_in_lib[f] THEN DefinedKinds ELSE {}
MarkLiveKinds(f) == IF is_in_lib[f] THEN DefinedKinds \cup {"undef"} ELSE {"undef"}

InObjs(f) == \E i \in 1..Len(objs) : objs[i] = f

AllJoined == \A f \in ObjNames : todo[f] = 0

\* Objects of the modelled links: a.o is given on the command line, b.o and
\* c.o on the command line or in an archive.
InitResolve ==
  /\ objs = InputObjs
  /\ dsos = InputDsos
  /\ is_in_lib \in {l \in [ObjNames -> BOOLEAN] : ~l["a.o"]}
  /\ elf_syms \in [ObjNames -> ObjSymtabs]
  /\ undefined \in {<< >>, <<"foo">>, <<"foo", "bar">>}
  /\ priority = [f \in FileNames |-> 0]
  /\ is_alive = [f \in FileNames |-> IF f \in ObjNames THEN ~is_in_lib[f] ELSE FALSE]
  /\ sym = [n \in SymNames |-> NoSymbol]
  /\ rpc = "set_file_priority"
  /\ todo = [f \in ObjNames |-> 0]
  /\ submits = [f \in FileNames |-> 0]
  /\ dso_syms = [d \in DsoNames |-> {}]
  /\ sym_is_weak = [n \in SymNames |-> FALSE]
  /\ errors = {}

\* void set_file_priority(ctx), then the start of the first parallel loop
\* of resolve_obj_symbols.
set_file_priority ==
  /\ rpc = "set_file_priority"
  /\ priority' = FilePriority(objs, dsos, is_in_lib)
  /\ rpc' = "lazy"
  /\ todo' = [f \in ObjNames |-> NextIdx(f, 1, LazyKinds(f))]
  /\ UNCHANGED <<objs, dsos, is_in_lib, elf_syms, undefined, is_alive, sym,
                 submits, errors>>
  /\ UNCHANGED <<dso_syms, sym_is_weak, verVars, binVars, layoutVars, extraVars>>

\* resolve_obj_symbols, "Register archive symbols": file->resolve_lazy_symbols
\* handles one global.
ResolveLazyStep(f) ==
  /\ rpc = "lazy"
  /\ todo[f] > 0
  /\ LET n == SymOrder[todo[f]]
     IN  sym' = [sym EXCEPT ![n] = resolve_lazy_symbol(@, f)]
  /\ todo' = [todo EXCEPT ![f] = NextIdx(f, @ + 1, LazyKinds(f))]
  /\ UNCHANGED <<objs, dsos, is_in_lib, elf_syms, undefined, priority,
                 is_alive, rpc, submits, errors>>
  /\ UNCHANGED <<dso_syms, sym_is_weak, verVars, binVars, layoutVars, extraVars>>

\* The first parallel_for_each has joined; the second starts.
JoinLazy ==
  /\ rpc = "lazy"
  /\ AllJoined
  /\ rpc' = "regular"
  /\ todo' = [f \in ObjNames |-> NextIdx(f, 1, RegularKinds(f))]
  /\ UNCHANGED <<objs, dsos, is_in_lib, elf_syms, undefined, priority,
                 is_alive, sym, submits, errors>>
  /\ UNCHANGED <<dso_syms, sym_is_weak, verVars, binVars, layoutVars, extraVars>>

\* "Register defined symbols": file->resolve_regular_symbols handles one
\* global.
ResolveRegularStep(f) ==
  /\ rpc = "regular"
  /\ todo[f] > 0
  /\ LET n == SymOrder[todo[f]]
     IN  sym' = [sym EXCEPT ![n] = maybe_override_symbol(@, f, elf_syms[f][n])]
  /\ todo' = [todo EXCEPT ![f] = NextIdx(f, @ + 1, RegularKinds(f))]
  /\ UNCHANGED <<objs, dsos, is_in_lib, elf_syms, undefined, priority,
                 is_alive, rpc, submits, errors>>
  /\ UNCHANGED <<dso_syms, sym_is_weak, verVars, binVars, layoutVars, extraVars>>

\* The loop over ctx.arg.undefined with the result of the exchange ignored.
RECURSIVE UndefinedLoopNoExchange(_, _, _, _)
UndefinedLoopNoExchange(names, i, alive, roots) ==
  IF i > Len(names) THEN [alive |-> alive, roots |-> roots]
  ELSE LET file == sym[names[i]].file
       IN  IF file = NULL
           THEN UndefinedLoopNoExchange(names, i + 1, alive, roots)
           ELSE UndefinedLoopNoExchange(names, i + 1,
                  [alive EXCEPT ![file] = TRUE],
                  IF file \notin DsoNames THEN Append(roots, file) ELSE roots)

RECURSIVE UndefinedLoop(_, _, _, _)
\* resolve_obj_symbols, the loop over ctx.arg.undefined from the i-th name
\* on: is_alive and the roots after it.
UndefinedLoop(names, i, alive, roots) ==
  IF i > Len(names) THEN [alive |-> alive, roots |-> roots]
  ELSE LET file == sym[names[i]].file
       IN  IF file = NULL THEN UndefinedLoop(names, i + 1, alive, roots)
           ELSE UndefinedLoop(names, i + 1, [alive EXCEPT ![file] = TRUE],
                  IF ~alive[file] /\ file \notin DsoNames
                  THEN Append(roots, file) ELSE roots)

\* The roots of the liveness closure: the alive objects, then the owners
\* of the --undefined names that were not alive.
Roots ==
  LET Alive(f) == is_alive[f]
  IN  UndefinedLoop(undefined, 1, is_alive, SelectSeq(objs, Alive))

Count(q, x) == Cardinality({i \in 1..Len(q) : q[i] = x})

\* A task of parallel_do that returns without calling mark_live_objects.
FeedDropped(o) == 0

\* Where the task that parallel_do runs for a submitted object starts.
Feed(o) == NextIdx(o, 1, MarkLiveKinds(o))

\* The second parallel_for_each has joined; the roots are collected and
\* handed to parallel_do.
JoinRegular ==
  /\ rpc = "regular"
  /\ AllJoined
  /\ LET r == Roots
     IN  /\ is_alive' = r.alive
         /\ submits' = [f \in FileNames |-> Count(r.roots, f)]
         /\ todo' = [f \in ObjNames |->
                       IF f \in Range(r.roots) THEN Feed(f) ELSE 0]
  /\ rpc' = "mark_live"
  /\ UNCHANGED <<objs, dsos, is_in_lib, elf_syms, undefined, priority, sym,
                 errors>>
  /\ UNCHANGED <<dso_syms, sym_is_weak, verVars, binVars, layoutVars, extraVars>>

\* file->mark_live_objects handles one global: an archive member now
\* registers its definition; a non-weak undefined reference makes the
\* owner of the symbol alive and feeds it to parallel_do if it was not.
MarkLiveStep(f) ==
  /\ rpc = "mark_live"
  /\ todo[f] > 0
  /\ LET n == SymOrder[todo[f]]
         k == elf_syms[f][n]
         o == sym[n].file
         next == NextIdx(f, todo[f] + 1, MarkLiveKinds(f))
     IN  IF esym_is_defined(k)
         THEN /\ sym' = [sym EXCEPT ![n] = maybe_override_symbol(@, f, k)]
              /\ todo' = [todo EXCEPT ![f] = next]
              /\ UNCHANGED <<is_alive, submits>>
         ELSE IF o # NULL /\ ~is_alive[o]
         THEN /\ is_alive' = [is_alive EXCEPT ![o] = TRUE]
              /\ submits' = [submits EXCEPT ![o] = @ + 1]
              /\ todo' = [todo EXCEPT ![f] = next, ![o] = Feed(o)]
              /\ UNCHANGED sym
         ELSE /\ todo' = [todo EXCEPT ![f] = next]
              /\ UNCHANGED <<is_alive, submits, sym>>
  /\ UNCHANGED <<objs, dsos, is_in_lib, elf_syms, undefined, priority, rpc,
                 errors>>
  /\ UNCHANGED <<dso_syms, sym_is_weak, verVars, binVars, layoutVars, extraVars>>

\* The test of that task without the check of is_alive.
ClearsAlways(f) == TRUE

\* Whether the task of "Remove symbols of eliminated objects" clears the
\* symbols of file f.
Clears(f) == ~is_alive[f]

\* parallel_do has returned; the loop that removes the symbols of
\* eliminated objects starts.
JoinMarkLive ==
  /\ rpc = "mark_live"
  /\ AllJoined
  /\ rpc' = "clear"
  /\ todo' = [f \in ObjNames |-> IF InObjs(f) /\ Clears(f) THEN 1 ELSE 0]
  /\ UNCHANGED <<objs, dsos, is_in_lib, elf_syms, undefined, priority,
                 is_alive, sym, submits, errors>>
  /\ UNCHANGED <<dso_syms, sym_is_weak, verVars, binVars, layoutVars, extraVars>>

\* The task of a dead object: sym->clear() for each of its globals it owns.
ClearDeadStep(f) ==
  /\ rpc = "clear"
  /\ todo[f] > 0
  /\ sym' = [n \in SymNames |->
               IF elf_syms[f][n] # "none" /\ sym[n].file = f
               THEN NoSymbol ELSE sym[n]]
  /\ todo' = [todo EXCEPT ![f] = 0]
  /\ UNCHANGED <<objs, dsos, is_in_lib, elf_syms, undefined, priority,
                 is_alive, rpc, submits, errors>>
  /\ UNCHANGED <<dso_syms, sym_is_weak, verVars, binVars, layoutVars, extraVars>>

\* An erase that removes nothing.
EraseNone(os) == os

\* erase(ctx.objs, !is_alive)
EraseDead(os) ==
  LET Alive(f) == is_alive[f]
  IN  SelectSeq(os, Alive)

\* The loop has joined: the dead objects are erased from ctx.objs and
\* resolve_obj_symbols returns.
JoinClear ==
  /\ rpc = "clear"
  /\ AllJoined
  /\ objs' = EraseDead(objs)
  /\ rpc' = "resolved"
  /\ UNCHANGED <<dsos, is_in_lib, elf_syms, undefined, priority, is_alive,
                 sym, todo, submits, errors>>
  /\ UNCHANGED <<dso_syms, sym_is_weak, verVars, binVars, layoutVars, extraVars>>

NextResolve ==
  \/ set_file_priority
  \/ \E f \in ObjNames : ResolveLazyStep(f)
  \/ JoinLazy
  \/ \E f \in ObjNames : ResolveRegularStep(f)
  \/ JoinRegular
  \/ \E f \in ObjNames : MarkLiveStep(f)
  \/ JoinMarkLive
  \/ \E f \in ObjNames : ClearDeadStep(f)
  \/ JoinClear

StartResolve == InitResolve /\ IdleVer /\ IdleBin /\ IdleLayout /\ IdleExtra

SpecResolve == StartResolve /\ [][NextResolve]_vars

\* C19: once set_file_priority has run, the files of ctx.objs and ctx.dsos
\* have pairwise distinct priorities, all at least 2; an object not from an
\* archive is below every archive member, which is below every DSO; and
\* within each of the three classes the priorities increase with the input
\* order.
C19_PriorityOrder ==
  rpc # "set_file_priority" =>
    /\ \A f \in Range(objs) \cup Range(dsos) : priority[f] >= 2
    /\ \A f, g \in Range(objs) \cup Range(dsos) :
         f # g => priority[f] # priority[g]
    /\ \A f, g \in Range(objs) :
         (~is_in_lib[f] /\ is_in_lib[g]) => priority[f] < priority[g]
    /\ \A f \in Range(objs) : \A d \in Range(dsos) : priority[f] < priority[d]
    /\ \A i, j \in 1..Len(objs) :
         (i < j /\ is_in_lib[objs[i]] = is_in_lib[objs[j]])
           => priority[objs[i]] < priority[objs[j]]
    /\ \A i, j \in 1..Len(dsos) :
         i < j => priority[dsos[i]] < priority[dsos[j]]

\* C19 witness: priorities are set, an archive member precedes a directly
\* given object in the input and has the higher priority.
C19_Witness ==
  /\ rpc = "lazy"
  /\ is_in_lib["b.o"] /\ ~is_in_lib["c.o"]
  /\ priority["c.o"] < priority["b.o"]
  /\ priority["b.o"] < priority["x.so"]

(***************************************************************************)
(* resolve_dso_symbols, run after resolve_obj_symbols.                     *)
(***************************************************************************)
\* The symbol tables of the objects of these links: foo is absent,
\* referenced (weakly or not) or defined; bar is absent, referenced or
\* defined.
LiveSymtabs ==
  {t \in ObjSymtabs : t["foo"] \in {"none", "undef", "weak_undef", "def"}}

NoGlobals == [n \in SymNames |-> "none"]

\* The names the modelled DSOs define: x.so any of them, y.so foo or none.
DsoSymtabs == {t \in [DsoNames -> SUBSET SymNames] : t["y.so"] \subseteq {"foo"}}

\* a.o is given on the command line, b.o on the command line or in an
\* archive, c.o on the command line and has no global symbol; x.so is
\* given under --as-needed, y.so under it or not.
InitLive ==
  /\ objs = InputObjs
  /\ dsos = InputDsos
  /\ is_in_lib \in {l \in [ObjNames -> BOOLEAN] : ~l["a.o"] /\ ~l["c.o"]}
  /\ elf_syms \in {t \in [ObjNames -> LiveSymtabs] : t["c.o"] = NoGlobals}
  /\ undefined \in {<< >>, <<"foo">>, <<"foo", "bar">>}
  /\ priority = [f \in FileNames |-> 0]
  /\ is_alive \in {a \in [FileNames -> BOOLEAN] :
                     /\ \A f \in ObjNames : a[f] = ~is_in_lib[f]
                     /\ ~a["x.so"]}
  /\ sym = [n \in SymNames |-> NoSymbol]
  /\ rpc = "set_file_priority"
  /\ todo = [f \in ObjNames |-> 0]
  /\ submits = [f \in FileNames |-> 0]
  /\ dso_syms \in DsoSymtabs
  /\ sym_is_weak = [n \in SymNames |-> FALSE]
  /\ errors = {}

\* Index of the first name at or after i that DSO d defines; 0 if none.
NextDsoIdx(d, i) ==
  LET c == {j \in i..Len(SymOrder) : SymOrder[j] \in dso_syms[d]}
  IN  IF c = {} THEN 0 ELSE CHOOSE j \in c : \A k \in c : j <= k

\* The globals the task of "Mark live DSOs" acts on: esym.is_defined() is
\* false.
DsoMarkKinds == {"undef", "weak_undef"}

TasksJoined == \A f \in DOMAIN todo : todo[f] = 0

\* void resolve_dso_symbols(ctx): the start of "Register DSO symbols".
resolve_dso_symbols ==
  /\ rpc = "resolved"
  /\ rpc' = "dso_register"
  /\ todo' = [d \in Range(dsos) |-> NextDsoIdx(d, 1)]
  /\ UNCHANGED <<objs, dsos, is_in_lib, elf_syms, undefined, priority,
                 is_alive, sym, submits, dso_syms, sym_is_weak, errors>>
  /\ UNCHANGED <<verVars, binVars, layoutVars, extraVars>>

\* SharedFile::resolve_symbols for one symbol, with sym.mu held: the DSO
\* takes a symbol no file owns or a file of higher priority value owns.
DsoTakes(sy, d) == sy.file = NULL \/ priority[d] < priority[sy.file]

DsoResolveStep(d) ==
  /\ rpc = "dso_register"
  /\ d \in DOMAIN todo
  /\ todo[d] > 0
  /\ LET n == SymOrder[todo[d]]
     IN  IF DsoTakes(sym[n], d)
         THEN /\ sym' = [sym EXCEPT ![n] =
                           [file |-> d, is_lazy |-> FALSE, esym |-> "def"]]
              /\ sym_is_weak' = [sym_is_weak EXCEPT ![n] = TRUE]
         ELSE UNCHANGED <<sym, sym_is_weak>>
  /\ todo' = [todo EXCEPT ![d] = NextDsoIdx(d, @ + 1)]
  /\ UNCHANGED <<objs, dsos, is_in_lib, elf_syms, undefined, priority,
                 is_alive, rpc, submits, dso_syms, errors>>
  /\ UNCHANGED <<verVars, binVars, layoutVars, extraVars>>

\* "Register DSO symbols" has joined; "Mark live DSOs" starts, one task per
\* object of ctx.objs.
JoinDsoRegister ==
  /\ rpc = "dso_register"
  /\ TasksJoined
  /\ rpc' = "dso_mark_live"
  /\ todo' = [f \in Range(objs) |-> NextIdx(f, 1, DsoMarkKinds)]
  /\ UNCHANGED <<objs, dsos, is_in_lib, elf_syms, undefined, priority,
                 is_alive, sym, submits, dso_syms, sym_is_weak, errors>>
  /\ UNCHANGED <<verVars, binVars, layoutVars, extraVars>>

\* Whether a reference of kind k clears sym.sym_is_weak, tested with any
\* binding.
ClearsWeakAnyBind(k) == TRUE

\* Whether a reference of kind k clears sym.sym_is_weak.
ClearsWeak(k) == ~esym_is_weak(k)

\* The body of the loop of "Mark live DSOs" for one undefined global of
\* object f.
DsoMarkLiveStep(f) ==
  /\ rpc = "dso_mark_live"
  /\ f \in DOMAIN todo
  /\ todo[f] > 0
  /\ LET n == SymOrder[todo[f]]
         o == sym[n].file
     IN  IF o = NULL \/ o \notin Range(dsos)
         THEN UNCHANGED <<is_alive, sym_is_weak>>
         ELSE /\ is_alive' = [is_alive EXCEPT ![o] = TRUE]
              /\ sym_is_weak' = IF ClearsWeak(elf_syms[f][n])
                            THEN [sym_is_weak EXCEPT ![n] = FALSE]
                            ELSE sym_is_weak
  /\ todo' = [todo EXCEPT ![f] = NextIdx(f, @ + 1, DsoMarkKinds)]
  /\ UNCHANGED <<objs, dsos, is_in_lib, elf_syms, undefined, priority, sym,
                 rpc, submits, dso_syms, errors>>
  /\ UNCHANGED <<verVars, binVars, layoutVars, extraVars>>

\* "Mark live DSOs" has joined; "Remove symbols of unreferenced DSOs"
\* starts, one task per DSO.
JoinDsoMarkLive ==
  /\ rpc = "dso_mark_live"
  /\ TasksJoined
  /\ rpc' = "dso_clear"
  /\ todo' = [d \in Range(dsos) |-> IF Clears(d) THEN 1 ELSE 0]
  /\ UNCHANGED <<objs, dsos, is_in_lib, elf_syms, undefined, priority,
                 is_alive, sym, submits, dso_syms, sym_is_weak, errors>>
  /\ UNCHANGED <<verVars, binVars, layoutVars, extraVars>>

\* The task of a dead DSO: sym->clear() for each of its symbols it owns.
DsoClearStep(d) ==
  /\ rpc = "dso_clear"
  /\ d \in DOMAIN todo
  /\ todo[d] > 0
  /\ sym' = [n \in SymNames |->
               IF n \in dso_syms[d] /\ sym[n].file = d
               THEN NoSymbol ELSE sym[n]]
  /\ sym_is_weak' = [n \in SymNames |->
                   IF n \in dso_syms[d] /\ sym[n].file = d
                   THEN FALSE ELSE sym_is_weak[n]]
  /\ todo' = [todo EXCEPT ![d] = 0]
  /\ UNCHANGED <<objs, dsos, is_in_lib, elf_syms, undefined, priority,
                 is_alive, rpc, submits, dso_syms, errors>>
  /\ UNCHANGED <<verVars, binVars, layoutVars, extraVars>>

\* The loop has joined: the dead DSOs are erased from ctx.dsos and
\* resolve_dso_symbols returns.
JoinDsoClear ==
  /\ rpc = "dso_clear"
  /\ TasksJoined
  /\ dsos' = EraseDead(dsos)
  /\ rpc' = "dso_resolved"
  /\ UNCHANGED <<objs, is_in_lib, elf_syms, undefined, priority, is_alive,
                 sym, todo, submits, dso_syms, sym_is_weak, errors>>
  /\ UNCHANGED <<verVars, binVars, layoutVars, extraVars>>

NextLive ==
  \/ set_file_priority
  \/ \E f \in ObjNames : ResolveLazyStep(f)
  \/ JoinLazy
  \/ \E f \in ObjNames : ResolveRegularStep(f)
  \/ JoinRegular
  \/ \E f \in ObjNames : MarkLiveStep(f)
  \/ JoinMarkLive
  \/ \E f \in ObjNames : ClearDeadStep(f)
  \/ JoinClear
  \/ resolve_dso_symbols
  \/ \E d \in DsoNames : DsoResolveStep(d)
  \/ JoinDsoRegister
  \/ \E f \in ObjNames : DsoMarkLiveStep(f)
  \/ JoinDsoMarkLive
  \/ \E d \in DsoNames : DsoClearStep(d)
  \/ JoinDsoClear

StartLive == InitLive /\ IdleVer /\ IdleBin /\ IdleLayout /\ IdleExtra

SpecLive == StartLive /\ [][NextLive]_vars

\* The files of list q that are alive, in the order of q.
AliveOf(q) ==
  LET Alive(f) == is_alive[f]
  IN  SelectSeq(q, Alive)

ObjsDone ==
  rpc \in {"resolved", "dso_register", "dso_mark_live", "dso_clear",
           "dso_resolved"}

\* C12, the lists: once resolve_obj_symbols has returned, ctx.objs is the
\* alive objects in input order and no symbol is owned by an object that
\* is not in ctx.objs; once resolve_dso_symbols has returned, the same
\* holds of ctx.dsos and the DSOs.
C12_Lists ==
  /\ ObjsDone =>
       /\ objs = AliveOf(InputObjs)
       /\ \A n \in SymNames :
            sym[n].file \in ObjNames => sym[n].file \in Range(objs)
  /\ rpc = "dso_resolved" =>
       /\ dsos = AliveOf(InputDsos)
       /\ \A n \in SymNames :
            sym[n].file \in {NULL} \cup Range(objs) \cup Range(dsos)

\* C12, the steps: no step of the two passes makes an alive file dead.
C12_Step == \A f \in FileNames : is_alive[f] => is_alive'[f]

\* C12: after resolve_obj_symbols and resolve_dso_symbols, ctx.objs and
\* ctx.dsos hold exactly the alive files in their input order, no symbol
\* is owned by a removed file, and is_alive never goes from true to false.
C12_OnlyAliveFilesRemain == [](C12_Lists) /\ [][C12_Step]_vars

\* Both passes have returned, an archive member and a DSO were removed, a
\* DSO was kept and owns a symbol.
C12_Witness ==
  /\ rpc = "dso_resolved"
  /\ Len(objs) < Len(InputObjs)
  /\ Len(dsos) = 1
  /\ \E n \in SymNames : sym[n].file \in Range(dsos)

\* C22: during the liveness closure of resolve_obj_symbols no object is
\* handed to parallel_do more than once, as a root or through the feeder,
\* under any interleaving, and no DSO is handed to it at all.
C22_SubmittedOnce ==
  /\ \A f \in DOMAIN submits : submits[f] <= 1
  /\ \A d \in DsoNames : d \in DOMAIN submits => submits[d] = 0

\* C22 witness: the closure has ended; both names of --undefined are owned,
\* one by an object alive from the start and one by an archive member that
\* two alive objects also reference; each of the three was submitted once.
C22_Witness ==
  /\ rpc = "clear"
  /\ undefined = <<"foo", "bar">>
  /\ sym["bar"].file = "a.o"
  /\ sym["foo"].file = "b.o" /\ is_in_lib["b.o"] /\ ~is_in_lib["c.o"]
  /\ elf_syms["a.o"]["foo"] = "undef" /\ elf_syms["c.o"]["foo"] = "undef"
  /\ \A f \in ObjNames : submits[f] = 1

\* DSO d is referenced: an object of ctx.objs has an undefined global, weak
\* or not, whose symbol is bound to d.
DsoReferenced(d) ==
  \E f \in Range(objs) : \E n \in SymNames :
    elf_syms[f][n] \in {"undef", "weak_undef"} /\ sym[n].file = d

\* An object of ctx.objs references n through a non-weak undefined global.
StronglyReferenced(n) == \E f \in Range(objs) : elf_syms[f][n] = "undef"

BoundToDso(n) == sym[n].file \in DsoNames

\* C21, the outcome: once "Mark live DSOs" has joined, every referenced DSO
\* is alive and no strongly referenced symbol of a DSO is weak.
C21_Outcome ==
  rpc \in {"dso_clear", "dso_resolved"} =>
    /\ \A d \in DsoNames : DsoReferenced(d) => is_alive[d]
    /\ \A n \in SymNames :
         (BoundToDso(n) /\ StronglyReferenced(n)) => ~sym_is_weak[n]

\* C21, the steps of "Mark live DSOs": a step changes is_alive only to make
\* a referenced DSO alive, and changes is_weak only to clear it for a
\* strongly referenced symbol of a DSO.
C21_Step ==
  rpc = "dso_mark_live" =>
    /\ \A d \in DsoNames :
         is_alive'[d] # is_alive[d] => (is_alive'[d] /\ DsoReferenced(d))
    /\ \A f \in ObjNames : is_alive'[f] = is_alive[f]
    /\ \A n \in SymNames :
         sym_is_weak'[n] # sym_is_weak[n]
           => (~sym_is_weak'[n] /\ BoundToDso(n) /\ StronglyReferenced(n))

\* C21: under every interleaving of the tasks of "Mark live DSOs", a DSO
\* is alive afterwards iff it was alive before or an object of ctx.objs has
\* an undefined global, weak or not, bound to it; and a symbol bound to a
\* DSO is weak afterwards iff it was weak before and no object of ctx.objs
\* references it through a non-weak undefined global.
C21_MarkLiveOutcome == [](C21_Outcome) /\ [][C21_Step]_vars

\* C21 witness: the phase has joined; a DSO is alive through a weak
\* reference alone and its symbol is still weak, and another symbol of a
\* DSO has lost is_weak.
C21_Witness ==
  /\ rpc = "dso_clear"
  /\ \E n \in SymNames :
       /\ BoundToDso(n) /\ sym_is_weak[n] /\ is_alive[sym[n].file]
       /\ \E f \in Range(objs) : elf_syms[f][n] = "weak_undef"
       /\ sym[n].file = "x.so"
  /\ \E n \in SymNames : BoundToDso(n) /\ ~sym_is_weak[n]

\* The binding resolution leaves for name n when the objects os are the
\* alive ones: that of the definition of least rank, if any; a definition
\* whose section was discarded is not registered.
MinRankBinding(os, n) ==
  LET D == {f \in Range(os) : esym_is_defined(elf_syms[f][n])
                                 /\ elf_syms[f][n] # "def_discarded"}
      R(f) == DefRank(f, elf_syms[f][n])
  IN  IF D = {} THEN NoSymbol
      ELSE LET w == CHOOSE f \in D : \A g \in D : ~RankLess(R(g), R(f))
           IN  [file |-> w, is_lazy |-> FALSE, esym |-> elf_syms[w][n]]

\* After resolve_obj_symbols every symbol is bound to the definition of
\* least rank among the objects left in ctx.objs.
ResolvedIsMinRank ==
  rpc = "resolved" => \A n \in SymNames : sym[n] = MinRankBinding(objs, n)

StrongDefiners(n) == {f \in Range(objs) : elf_syms[f][n] = "def"}

\* C4 as stated: of two objects that define S non-weakly, the one with the
\* lower priority owns S after the pass.
C4_LowerOfEveryPairOwns ==
  rpc = "resolved" =>
    \A n \in SymNames : \A A, B \in ObjNames :
      (priority[A] < priority[B] /\ elf_syms[A][n] = "def"
         /\ elf_syms[B][n] = "def")
        => sym[n].file = A

\* C4 amended: a symbol with a strong (non-weak, non-common) definition in
\* an object left in ctx.objs is owned by the lowest-priority such object,
\* so never by the higher one of two such objects.
C4_LowestPriorityOwns ==
  rpc = "resolved" =>
    \A n \in SymNames :
      StrongDefiners(n) # {} =>
        /\ sym[n].file \in StrongDefiners(n)
        /\ ~sym[n].is_lazy
        /\ \A f \in StrongDefiners(n) : priority[sym[n].file] <= priority[f]

\* C4 witness: resolved, two objects left that both define a name strongly,
\* the loser an archive member, the owner the other one.
C4_Witness ==
  /\ rpc = "resolved"
  /\ \E n \in SymNames : \E A, B \in StrongDefiners(n) :
       A # B /\ is_in_lib[B] /\ sym[n].file = A

AnyDefiner(n) == {f \in ObjNames : esym_is_defined(elf_syms[f][n])}

\* The first sentence of C5: an undefined global of an object left in
\* ctx.objs is owned by no eliminated file, unless the reference is weak or
\* the name is in --undefined.
C5_OwnerNotDead ==
  \A O \in Range(objs) : \A n \in SymNames :
    elf_syms[O][n] \in {"undef", "weak_undef"} =>
      \/ sym[n].file = NULL
      \/ sym[n].file \in Range(objs)
      \/ elf_syms[O][n] = "weak_undef"
      \/ n \in Range(undefined)

\* C5 as stated: with its second sentence, that every archive member
\* defining a name an alive object refers to non-weakly is alive and owns it.
C5_EveryDefinerAlive ==
  rpc = "resolved" =>
    /\ C5_OwnerNotDead
    /\ \A M \in ObjNames : \A n \in SymNames :
         (/\ is_in_lib[M] /\ esym_is_defined(elf_syms[M][n])
          /\ \E O \in Range(objs) : elf_syms[O][n] = "undef")
           => (M \in Range(objs) /\ sym[n].file = M)

\* C5 amended: the first sentence, and: a name an alive object refers to
\* non-weakly and some object defines is owned by an alive object that
\* defines it; an archive member that is its only definer is alive and owns
\* it.
C5_LivenessClosure ==
  rpc = "resolved" =>
    /\ C5_OwnerNotDead
    /\ \A O \in Range(objs) : \A n \in SymNames :
         (elf_syms[O][n] = "undef" /\ AnyDefiner(n) # {})
           => /\ sym[n].file \in Range(objs)
              /\ sym[n].file \in AnyDefiner(n)
              /\ \A M \in ObjNames :
                   AnyDefiner(n) = {M} => (M \in Range(objs) /\ sym[n].file = M)

\* C5 witness: resolved, an archive member that an undefined reference of
\* another object made alive owns the name.
C5_Witness ==
  /\ rpc = "resolved"
  /\ \E n \in SymNames : \E O, M \in Range(objs) :
       /\ elf_syms[O][n] = "undef"
       /\ is_in_lib[M] /\ esym_is_defined(elf_syms[M][n])
       /\ sym[n].file = M
       /\ submits[M] = 1

(***************************************************************************)
(* check_duplicate_symbols, run on a resolved link.                        *)
(***************************************************************************)
DupObjs == <<"a.o", "b.o", "c.o", "d.o">>

\* A global in an object that reaches the check: referenced, defined in a
\* section, defined in a discarded section, weak, common or absolute.
DupKinds == {"undef", "def", "def_discarded", "weak_def", "common", "abs"}

DupSymtabs == {t \in [SymNames -> DupKinds] : t["bar"] \in {"undef", "def"}}

\* ObjectFile::get_section(esym) is non-null.
get_section(k) == k \in {"def", "weak_def"}

\* The objects of ctx.objs after resolution, all alive, every symbol bound
\* as resolve_obj_symbols leaves it.
InitDup ==
  /\ objs = DupObjs
  /\ dsos = << >>
  /\ is_in_lib \in {l \in [Range(DupObjs) -> BOOLEAN] : ~l["a.o"]}
  /\ elf_syms \in [Range(DupObjs) -> DupSymtabs]
  /\ undefined = << >>
  /\ priority = FilePriority(objs, dsos, is_in_lib)
  /\ is_alive = [f \in Range(DupObjs) |-> TRUE]
  /\ sym = [n \in SymNames |-> MinRankBinding(objs, n)]
  /\ rpc = "check_duplicate_symbols"
  /\ todo = << >>
  /\ submits = << >>
  /\ dso_syms = << >>
  /\ sym_is_weak = << >>
  /\ errors = {}

\* The condition under which the loop body reports global n of file f,
\* without the test of the binding.
DuplicateErrorWeakToo(f, n) ==
  LET esym == elf_syms[f][n]
      is_common == esym_is_common(esym)
      is_eliminated == ~esym_is_abs(esym) /\ ~esym_is_common(esym)
                       /\ ~get_section(esym)
  IN  sym[n].file # f /\ esym_is_defined(esym) /\ ~is_common /\ ~is_eliminated

\* The condition under which the loop body reports global n of file f.
DuplicateError(f, n) ==
  LET esym == elf_syms[f][n]
      is_common == esym_is_common(esym)
      is_weak == esym_is_weak(esym)
      is_eliminated == ~esym_is_abs(esym) /\ ~esym_is_common(esym)
                       /\ ~get_section(esym)
  IN  sym[n].file # f /\ esym_is_defined(esym) /\ ~is_common /\ ~is_weak
      /\ ~is_eliminated

\* void check_duplicate_symbols(ctx): the parallel loop over ctx.objs, whose
\* tasks only read and report, then Error::checkpoint.
check_duplicate_symbols ==
  /\ rpc = "check_duplicate_symbols"
  /\ errors' = {[file |-> f, owner |-> sym[n].file, sym |-> n] :
                  <<f, n>> \in {p \in Range(objs) \X SymNames :
                                  DuplicateError(p[1], p[2])}}
  /\ rpc' = IF errors' # {} THEN "exit" ELSE "checked"
  /\ UNCHANGED <<objs, dsos, sym, todo, is_in_lib, elf_syms, undefined,
                 priority, is_alive, submits>>
  /\ UNCHANGED <<dso_syms, sym_is_weak, verVars, binVars, layoutVars, extraVars>>

NextDup == check_duplicate_symbols

StartDup == InitDup /\ IdleVer /\ IdleBin /\ IdleLayout /\ IdleExtra

SpecDup == StartDup /\ [][NextDup]_vars

DupChecked == rpc \in {"exit", "checked"}

\* The files of objs that hold a defined, non-weak, non-common,
\* non-eliminated definition of n.
Conflicting(n) == {f \in Range(objs) : elf_syms[f][n] \in {"def", "abs"}}

ErrorsOn(n) == {e \in errors : e.sym = n}

VER_NDX_LOCAL == 0
VER_NDX_GLOBAL == 1
VER_NDX_LAST_RESERVED == 1
VERSYM_HIDDEN == 32768

MaxVers == 2

VerNames == {"V1", "V2", "V3"}

\* ctx.arg.version_definitions: the version names of the version script.
VersionDefinitions ==
  {d \in SeqsUpTo(VerNames, MaxVers) :
     \A i, j \in 1..Len(d) : d[i] = d[j] => i = j}

SymverObjs == <<"a.o", "b.o">>

\* A version suffix is the text after the first '@' of the symbol's name, a
\* sequence of an optional "@" and the characters of the version, which are
\* kept together as one item; NoSuffix (the null pointer) if the name has
\* no '@'.
NoSuffix == <<NULL>>
Suffixes ==
  [foo : {NoSuffix, <<"@", "V1">>, <<"V1">>, <<"V2">>, <<"@", "V3">>, << >>},
   bar : {NoSuffix, <<"V1">>}]

\* sym->ver_idx |= VERSYM_HIDDEN, on 16 bits.
OrHidden(x) == IF x >= VERSYM_HIDDEN THEN x ELSE x + VERSYM_HIDDEN

\* The value the loop over version_definitions stores for its entry i,
\* with the reserved indices not skipped.
VerdefIndexFromReserved(i) == i + VER_NDX_LAST_RESERVED

\* The value the loop over version_definitions stores for its entry i.
VerdefIndex(i) == i + VER_NDX_LAST_RESERVED + 1

verdefs_end == -1

\* verdefs.find(ver): a later entry of the same name replaces an earlier
\* one.
verdefs_find(ver) ==
  LET d == arg.version_definitions
      c == {i \in 0..(Len(d) - 1) : <<d[i + 1]>> = ver}
  IN  IF c = {} THEN verdefs_end
      ELSE VerdefIndex(CHOOSE i \in c : \A j \in c : j <= i)

RECURSIVE ParseSymverLoop(_, _, _, _)
\* The loop of one task of parse_symbol_version over the globals of file,
\* from the i-th on: the symbols and errors it leaves.
ParseSymverLoop(file, i, sy, errs) ==
  IF i > Len(SymOrder) THEN [sym |-> sy, errors |-> errs]
  ELSE
    LET n == SymOrder[i]
        ver0 == symvers[file][n]
        is_default == Len(ver0) > 0 /\ Head(ver0) = "@"
        ver == IF is_default THEN Tail(ver0) ELSE ver0
        it == verdefs_find(ver)
        idx == IF is_default THEN it ELSE OrHidden(it)
    IN  IF ver0 = NoSuffix \/ sy[n].file # file
        THEN ParseSymverLoop(file, i + 1, sy, errs)
        ELSE IF it = verdefs_end
        THEN ParseSymverLoop(file, i + 1, sy,
               errs \cup {[file |-> file, sym |-> n, ver |-> ver]})
        ELSE ParseSymverLoop(file, i + 1,
               [sy EXCEPT ![n].ver_idx = idx], errs)

VerSymbols(owners, vers) ==
  [file : owners, ver_idx : vers, visibility : {"STV_DEFAULT"},
   type : {"STT_FUNC"}, is_exported : {FALSE}, is_imported : {FALSE}]

InitSymver ==
  /\ objs = SymverObjs
  /\ dsos = << >>
  /\ arg \in [version_definitions : VersionDefinitions]
  /\ symvers \in [Range(SymverObjs) -> Suffixes]
  /\ sym \in [SymNames ->
                VerSymbols(Range(SymverObjs) \cup {NULL},
                           {VER_NDX_LOCAL, VER_NDX_GLOBAL})]
  /\ errors = {}
  /\ todo = [f \in Range(SymverObjs) |-> 0]
  /\ undefs = << >> /\ dynsym = << >> /\ versym = << >>
  /\ verdef = << >> /\ verneed = << >>
  /\ vpc = "parse_symbol_version"

\* void parse_symbol_version(ctx): verdefs is built, the parallel loop over
\* ctx.objs starts.
parse_symbol_version ==
  /\ vpc = "parse_symbol_version"
  /\ todo' = [f \in Range(objs) |-> 1]
  /\ vpc' = "parse_symbol_version_loop"
  /\ UNCHANGED <<objs, dsos, sym, errors, arg, symvers, undefs, dynsym,
                 versym, verdef, verneed>>
  /\ UNCHANGED <<layoutVars, extraVars, resolveVars, binVars>>

\* One task of the parallel loop: it writes only symbols its file owns.
ParseSymverStep(file) ==
  /\ vpc = "parse_symbol_version_loop"
  /\ todo[file] = 1
  /\ LET r == ParseSymverLoop(file, 1, sym, errors)
     IN  sym' = r.sym /\ errors' = r.errors
  /\ todo' = [todo EXCEPT ![file] = 0]
  /\ UNCHANGED <<objs, dsos, arg, symvers, undefs, dynsym, versym, verdef,
                 verneed, vpc>>
  /\ UNCHANGED <<layoutVars, extraVars, resolveVars, binVars>>

\* The parallel loop returns.
JoinSymver ==
  /\ vpc = "parse_symbol_version_loop"
  /\ \A f \in Range(objs) : todo[f] = 0
  /\ vpc' = "parsed"
  /\ UNCHANGED <<ctxVars, arg, symvers, undefs, dynsym, versym, verdef, verneed>>
  /\ UNCHANGED <<layoutVars, extraVars, resolveVars, binVars>>

NextSymver ==
  \/ parse_symbol_version
  \/ \E file \in Range(SymverObjs) : ParseSymverStep(file)
  \/ JoinSymver

StartSymver == InitSymver /\ IdleResolve /\ IdleBin /\ IdleLayout /\ IdleExtra

SpecSymver == StartSymver /\ [][NextSymver]_vars

IsDefaultForm(v) == Len(v) > 0 /\ Head(v) = "@"
VersionOf(v) == IF IsDefaultForm(v) THEN Tail(v) ELSE v
\* The 0-based positions in version_definitions of the version a suffix names.
NamedEntries(v) ==
  {k \in 0..(Len(arg.version_definitions) - 1) :
     <<arg.version_definitions[k + 1]>> = VersionOf(v)}
ErrorsAbout(f, n) == {e \in errors : e.file = f /\ e.sym = n}

\* C8, the result: a global owned by the scanned object whose suffix names
\* entry k has ver_idx k + VER_NDX_LAST_RESERVED + 1, with VERSYM_HIDDEN
\* for the '@' form, and no error; for a suffix that names no entry there
\* is one error.
C8_Parsed ==
  vpc = "parsed" =>
    \A f \in Range(objs) : \A n \in SymNames :
      (sym[n].file = f /\ symvers[f][n] # NoSuffix) =>
        LET v == symvers[f][n]
        IN  /\ \A k \in NamedEntries(v) :
                 /\ sym[n].ver_idx =
                      IF IsDefaultForm(v) THEN k + VER_NDX_LAST_RESERVED + 1
                      ELSE k + VER_NDX_LAST_RESERVED + 1 + VERSYM_HIDDEN
                 /\ ErrorsAbout(f, n) = {}
            /\ NamedEntries(v) = {} => Cardinality(ErrorsAbout(f, n)) = 1

\* C8, the steps: a step changes a symbol only if its owner holds a suffix
\* for it that names an entry, and then only its ver_idx.
C8_Step ==
  \A n \in SymNames :
    sym'[n] # sym[n] =>
      /\ sym[n].file # NULL
      /\ symvers[sym[n].file][n] # NoSuffix
      /\ NamedEntries(symvers[sym[n].file][n]) # {}
      /\ sym'[n] = [sym[n] EXCEPT !.ver_idx = sym'[n].ver_idx]

\* C8: parse_symbol_version maps the version suffix of each global the
\* scanned object owns to its index, flags the non-default form, records one
\* error for an unknown version leaving ver_idx alone, and modifies no
\* symbol the scanned object does not own.
C8_ParseSymbolVersion == [](C8_Parsed) /\ [][C8_Step]_vars

\* C8 witness: a.o owns foo@@V1 and bar@V1 with version_definitions led by
\* V1: foo got index 2, bar 2 | VERSYM_HIDDEN; b.o holds a suffix for a
\* symbol it does not own.
C8_Witness ==
  /\ vpc = "parsed"
  /\ Len(arg.version_definitions) >= 1 /\ arg.version_definitions[1] = "V1"
  /\ sym["foo"].file = "a.o" /\ symvers["a.o"]["foo"] = <<"@", "V1">>
  /\ sym["foo"].ver_idx = 2
  /\ sym["bar"].file = "a.o" /\ symvers["a.o"]["bar"] = <<"V1">>
  /\ sym["bar"].ver_idx = 2 + VERSYM_HIDDEN
  /\ symvers["b.o"]["foo"] = <<"V2">>

(***************************************************************************)
(* compute_import_export.                                                  *)
(***************************************************************************)
ExportObjs == <<"a.o", "b.o">>
ExportDsos == <<"x.so", "y.so">>

\* The symbols of the modelled links: foo with any owner, visibility and
\* type, bar a default or hidden object symbol of a.o or x.so.
ExportSymbols ==
  {t \in [SymNames ->
            [file : Range(ExportObjs) \cup {"x.so", NULL},
             ver_idx : {VER_NDX_LOCAL, VER_NDX_GLOBAL + 1},
             visibility : {"STV_DEFAULT", "STV_HIDDEN", "STV_PROTECTED"},
             type : {"STT_FUNC", "STT_OBJECT"},
             is_exported : BOOLEAN, is_imported : BOOLEAN]] :
     /\ ~(t["foo"].is_exported /\ t["foo"].is_imported)
     /\ t["bar"].file \in {"a.o", "x.so"}
     /\ t["bar"].ver_idx = VER_NDX_GLOBAL + 1
     /\ t["bar"].visibility # "STV_PROTECTED"
     /\ t["bar"].type = "STT_OBJECT"
     /\ ~t["bar"].is_exported /\ ~t["bar"].is_imported}

InitExport ==
  /\ objs = ExportObjs
  /\ dsos = ExportDsos
  /\ arg \in [shared : BOOLEAN, export_dynamic : BOOLEAN,
              Bsymbolic : BOOLEAN, Bsymbolic_functions : BOOLEAN]
  /\ undefs \in {u \in [Range(ExportDsos) -> SUBSET SymNames] :
                   u["y.so"] \subseteq {"foo"}}
  /\ sym \in ExportSymbols
  /\ errors = {}
  /\ todo = [f \in Range(ExportObjs) \cup Range(ExportDsos) |-> 0]
  /\ symvers = << >> /\ dynsym = << >> /\ versym = << >>
  /\ verdef = << >> /\ verneed = << >>
  /\ vpc = "compute_import_export"

\* The test under which a task of the first loop marks a symbol exported.
DsoExportCond(sy) ==
  sy.file # NULL /\ sy.file \notin Range(dsos) /\ sy.visibility # "STV_HIDDEN"

\* The tests a global passes in the second loop before it is marked exported.
ObjExportCond(sy, file) ==
  /\ sy.file = file
  /\ ~(sy.visibility = "STV_HIDDEN" \/ sy.ver_idx = VER_NDX_LOCAL)

\* The test of the second loop for is_imported, with the visibility
\* ignored.
ImportCondAnyVisibility(sy) ==
  /\ arg.shared /\ ~arg.Bsymbolic
  /\ ~(arg.Bsymbolic_functions /\ sy.type = "STT_FUNC")

\* The test of the second loop for is_imported.
ImportCond(sy) ==
  /\ arg.shared /\ sy.visibility # "STV_PROTECTED" /\ ~arg.Bsymbolic
  /\ ~(arg.Bsymbolic_functions /\ sy.type = "STT_FUNC")

\* The body of one task of the first loop, for DSO file.
ExportDsoTask(file, sy) ==
  [n \in SymNames |->
     IF n \in undefs[file] /\ DsoExportCond(sy[n])
     THEN [sy[n] EXCEPT !.is_exported = TRUE] ELSE sy[n]]

\* The body of one task of the second loop, for object file.
ExportObjTask(file, sy) ==
  [n \in SymNames |->
     IF ObjExportCond(sy[n], file)
     THEN [sy[n] EXCEPT !.is_exported = TRUE,
                        !.is_imported = IF ImportCond(sy[n]) THEN TRUE ELSE @]
     ELSE sy[n]]

\* What follows the first loop: the second loop starts if shared or
\* export_dynamic is set, else the pass is over.
ExportObjsEntry ==
  IF arg.shared \/ arg.export_dynamic
  THEN /\ todo' = [f \in DOMAIN todo |-> IF f \in Range(objs) THEN 1 ELSE 0]
       /\ vpc' = "export_objs"
  ELSE /\ todo' = [f \in DOMAIN todo |-> 0]
       /\ vpc' = "exported"

\* void compute_import_export(ctx): up to the start of its first parallel
\* loop, which is skipped for a shared output.
compute_import_export ==
  /\ vpc = "compute_import_export"
  /\ IF ~arg.shared
     THEN /\ todo' = [f \in DOMAIN todo |-> IF f \in Range(dsos) THEN 1 ELSE 0]
          /\ vpc' = "export_dsos"
     ELSE ExportObjsEntry
  /\ UNCHANGED <<objs, dsos, sym, errors, arg, symvers, undefs, dynsym,
                 versym, verdef, verneed>>
  /\ UNCHANGED <<layoutVars, extraVars, resolveVars, binVars>>

ExportDsoStep(file) ==
  /\ vpc = "export_dsos"
  /\ todo[file] = 1
  /\ sym' = ExportDsoTask(file, sym)
  /\ todo' = [todo EXCEPT ![file] = 0]
  /\ UNCHANGED <<objs, dsos, errors, arg, symvers, undefs, dynsym, versym,
                 verdef, verneed, vpc>>
  /\ UNCHANGED <<layoutVars, extraVars, resolveVars, binVars>>

JoinExportDsos ==
  /\ vpc = "export_dsos"
  /\ \A f \in DOMAIN todo : todo[f] = 0
  /\ ExportObjsEntry
  /\ UNCHANGED <<objs, dsos, sym, errors, arg, symvers, undefs, dynsym,
                 versym, verdef, verneed>>
  /\ UNCHANGED <<layoutVars, extraVars, resolveVars, binVars>>

ExportObjStep(file) ==
  /\ vpc = "export_objs"
  /\ todo[file] = 1
  /\ sym' = ExportObjTask(file, sym)
  /\ todo' = [todo EXCEPT ![file] = 0]
  /\ UNCHANGED <<objs, dsos, errors, arg, symvers, undefs, dynsym, versym,
                 verdef, verneed, vpc>>
  /\ UNCHANGED <<layoutVars, extraVars, resolveVars, binVars>>

JoinExportObjs ==
  /\ vpc = "export_objs"
  /\ \A f \in DOMAIN todo : todo[f] = 0
  /\ vpc' = "exported"
  /\ UNCHANGED <<ctxVars, arg, symvers, undefs, dynsym, versym, verdef, verneed>>
  /\ UNCHANGED <<layoutVars, extraVars, resolveVars, binVars>>

NextExport ==
  \/ compute_import_export
  \/ \E file \in Range(ExportDsos) : ExportDsoStep(file)
  \/ JoinExportDsos
  \/ \E file \in Range(ExportObjs) : ExportObjStep(file)
  \/ JoinExportObjs

StartExport == InitExport /\ IdleResolve /\ IdleBin /\ IdleLayout /\ IdleExtra

SpecExport == StartExport /\ [][NextExport]_vars

\* Case (a): not shared, in some DSO's undefs, bound to a non-DSO file, not
\* hidden.
ExportCaseA(n) ==
  /\ ~arg.shared
  /\ \E d \in Range(dsos) : n \in undefs[d]
  /\ sym[n].file # NULL /\ sym[n].file \notin Range(dsos)
  /\ sym[n].visibility # "STV_HIDDEN"

\* Case (b): shared or export_dynamic, owned by an object of objs, not
\* hidden, ver_idx not VER_NDX_LOCAL.
ExportCaseB(n) ==
  /\ arg.shared \/ arg.export_dynamic
  /\ sym[n].file \in Range(objs)
  /\ sym[n].visibility # "STV_HIDDEN"
  /\ sym[n].ver_idx # VER_NDX_LOCAL

ImportCase(n) ==
  /\ ExportCaseB(n) /\ arg.shared
  /\ sym[n].visibility # "STV_PROTECTED"
  /\ ~arg.Bsymbolic
  /\ ~(arg.Bsymbolic_functions /\ sym[n].type = "STT_FUNC")

\* C9, the result: when the pass is over every symbol of case (a) or (b) is
\* exported and every symbol of the import case is imported and exported.
C9_Exported ==
  vpc = "exported" =>
    \A n \in SymNames :
      /\ (ExportCaseA(n) \/ ExportCaseB(n)) => sym[n].is_exported
      /\ ImportCase(n) => (sym[n].is_imported /\ sym[n].is_exported)

\* C9, the steps: a step sets is_exported only in case (a) or (b), sets
\* is_imported only in the import case and on an exported symbol, clears
\* neither flag and changes nothing else of a symbol.
C9_Step ==
  \A n \in SymNames :
    /\ (sym'[n].is_exported /\ ~sym[n].is_exported)
         => (ExportCaseA(n) \/ ExportCaseB(n))
    /\ (sym'[n].is_imported /\ ~sym[n].is_imported)
         => (ImportCase(n) /\ sym'[n].is_exported)
    /\ sym[n].is_exported => sym'[n].is_exported
    /\ sym[n].is_imported => sym'[n].is_imported
    /\ sym'[n] = [sym[n] EXCEPT !.is_exported = sym'[n].is_exported,
                                !.is_imported = sym'[n].is_imported]

\* C9: compute_import_export sets is_exported exactly in case (a) or (b)
\* and is_imported exactly in the import case, never clears a flag, and
\* every symbol it marks imported is exported.
C9_ImportExport == [](C9_Exported) /\ [][C9_Step]_vars

\* C9 witness: a shared link with -Bsymbolic-functions in which the
\* function foo of an object was exported but not imported and the object
\* bar of a.o was exported and imported.
C9_Witness ==
  /\ vpc = "exported"
  /\ arg.shared /\ arg.Bsymbolic_functions /\ ~arg.Bsymbolic
  /\ sym["foo"].file = "b.o" /\ sym["foo"].type = "STT_FUNC"
  /\ sym["foo"].visibility = "STV_DEFAULT"
  /\ sym["foo"].ver_idx # VER_NDX_LOCAL
  /\ sym["foo"].is_exported /\ ~sym["foo"].is_imported
  /\ sym["bar"].file = "a.o" /\ sym["bar"].is_exported /\ sym["bar"].is_imported

(***************************************************************************)
(* Version tables: fill_verdef, fill_verneed.                              *)
(***************************************************************************)
MaxDyn == 3

VertabDsos == <<"x.so", "y.so", "z.so">>

\* SharedFile::soname, as its rank in the order of the soname strings:
\* z.so is a second library with the soname of x.so.
soname(file) == IF file \in {"x.so", "z.so"} THEN 1 ELSE 2

\* The symbols .dynsym can hold: a symbol of an object with a reserved
\* index or the index of a version definition, the last of these also
\* with VERSYM_HIDDEN; a symbol of a DSO with an index of that DSO's own.
DynSymbols(defs) ==
  [file : {"a.o"},
   ver_idx : {VER_NDX_LOCAL, VER_NDX_GLOBAL}
             \cup {VerdefIndex(k) : k \in 0..(Len(defs) - 1)}
             \cup {OrHidden(VerdefIndex(k)) : k \in {Len(defs) - 1} \ {-1}}]
  \cup [file : {"x.so"}, ver_idx : {1, 2, 3}]
  \cup [file : {"y.so", "z.so"}, ver_idx : {2}]

NullSymbol == [file |-> NULL, ver_idx |-> 0]

\* ctx.dynsym->symbols once a symbol was added: the null entry, then the
\* symbols, each at its dynsym_idx.
DynsymTables(defs) ==
  UNION {{t \in [0..k -> DynSymbols(defs) \cup {NullSymbol}] :
            /\ t[0] = NullSymbol
            /\ \A i \in 1..k : t[i] # NullSymbol} : k \in 1..MaxDyn}

EmptyContents == [i \in {} |-> 0]

InitVertab ==
  /\ objs = <<"a.o">>
  /\ dsos = VertabDsos
  /\ arg \in [version_definitions : VersionDefinitions,
              soname : {"", "libfoo.so"}, output : {"a.out"}]
  /\ dynsym \in DynsymTables(arg.version_definitions)
  /\ versym = EmptyContents
  /\ verdef = << >>
  /\ verneed = << >>
  /\ sym = << >> /\ errors = {} /\ todo = << >>
  /\ symvers = << >> /\ undefs = << >>
  /\ vpc = "fill_verdef"

\* contents.resize(n, fill) of a vector of n or fewer items.
Resize(contents, n, fill) ==
  [i \in 0..(n - 1) |-> IF i \in DOMAIN contents THEN contents[i] ELSE fill]

DynsymSize == Cardinality(DOMAIN dynsym)

\* What .gnu.version holds for dynsym entry i >= 1 after fill_verdef if
\* its last loop is left out.
VerdefVersymFill(i) == 1

\* What the last loop of fill_verdef stores for dynsym entry i >= 1.
VerdefVersym(i) == dynsym[i].ver_idx

\* void fill_verdef(ctx)
fill_verdef ==
  /\ vpc = "fill_verdef"
  /\ IF arg.version_definitions = << >>
     THEN UNCHANGED <<versym, verdef>>
     ELSE LET resized == [Resize(versym, DynsymSize, 1) EXCEPT ![0] = 0]
              basename == IF arg.soname = "" THEN arg.output ELSE arg.soname
          IN  /\ verdef' =
                   <<[verstr |-> basename, vd_ndx |-> 1, vd_flags |-> "VER_FLG_BASE"]>>
                   \o [k \in 1..Len(arg.version_definitions) |->
                         [verstr |-> arg.version_definitions[k],
                          vd_ndx |-> k + 1, vd_flags |-> "0"]]
              /\ versym' = [i \in DOMAIN resized |->
                              IF i = 0 THEN resized[0] ELSE VerdefVersym(i)]
  /\ vpc' = "fill_verneed"
  /\ UNCHANGED <<ctxVars, arg, symvers, undefs, dynsym, verneed>>
  /\ UNCHANGED <<layoutVars, extraVars, resolveVars, binVars>>

\* The dynsym indices fill_verneed keeps: symbols of a DSO with a version.
Versioned ==
  {i \in DOMAIN dynsym \ {0} :
     ~(dynsym[i].file \notin Range(dsos) \/ dynsym[i].ver_idx <= VER_NDX_LAST_RESERVED)}

SortLess(a, b) ==
  \/ soname(dynsym[a].file) < soname(dynsym[b].file)
  \/ /\ soname(dynsym[a].file) = soname(dynsym[b].file)
     /\ dynsym[a].ver_idx < dynsym[b].ver_idx

\* The orders sort() can leave the kept symbols in: it is not stable.
Sorted(S) ==
  {q \in [1..Cardinality(S) -> S] :
     /\ \A i, j \in DOMAIN q : q[i] = q[j] => i = j
     /\ \A i, j \in DOMAIN q : i < j => ~SortLess(q[j], q[i])}

RECURSIVE VerneedLoop(_, _, _, _, _)
\* The last loop of fill_verneed from its i-th round on: the contents of
\* .gnu.version and the Verneed groups with their Vernaux entries.
VerneedLoop(syms, i, veridx, vs, vn) ==
  IF i > Len(syms) THEN [versym |-> vs, verneed |-> vn]
  ELSE
    LET s == dynsym[syms[i]]
        entry(x) == [verstr |-> s.ver_idx, vna_other |-> x]
        new_group == i = 1 \/ dynsym[syms[i - 1]].file # s.file
        new_entry == ~new_group /\ dynsym[syms[i - 1]].ver_idx # s.ver_idx
        idx == IF new_group \/ new_entry THEN (veridx + 1) % 65536 ELSE veridx
        vn2 == IF new_group
               THEN Append(vn, [file |-> s.file, aux |-> <<entry(idx)>>])
               ELSE IF new_entry
               THEN [vn EXCEPT ![Len(vn)].aux = Append(@, entry(idx))]
               ELSE vn
    IN  VerneedLoop(syms, i + 1, idx, [vs EXCEPT ![syms[i]] = idx], vn2)

\* void fill_verneed(ctx)
fill_verneed ==
  /\ vpc = "fill_verneed"
  /\ IF DynsymSize = 0 \/ Versioned = {}
     THEN UNCHANGED <<versym, verneed>>
     ELSE \E syms \in Sorted(Versioned) :
            LET resized == [Resize(versym, DynsymSize, 1) EXCEPT ![0] = 0]
                veridx == (VER_NDX_LAST_RESERVED
                             + Len(arg.version_definitions)) % 65536
                r == VerneedLoop(syms, 1, veridx, resized, << >>)
            IN  versym' = r.versym /\ verneed' = r.verneed
  /\ vpc' = "filled"
  /\ UNCHANGED <<ctxVars, arg, symvers, undefs, dynsym, verdef>>
  /\ UNCHANGED <<layoutVars, extraVars, resolveVars, binVars>>

NextVertab == fill_verdef \/ fill_verneed

StartVertab == InitVertab /\ IdleResolve /\ IdleBin /\ IdleLayout /\ IdleExtra

SpecVertab == StartVertab /\ [][NextVertab]_vars

VernauxOther(f, v) ==
  {verneed[g].aux[a].vna_other :
     <<g, a>> \in {p \in (DOMAIN verneed) \X (1..MaxDyn) :
                     /\ verneed[p[1]].file = f
                     /\ p[2] \in DOMAIN verneed[p[1]].aux
                     /\ verneed[p[1]].aux[p[2]].verstr = v}}

VernauxEntries ==
  {p \in (DOMAIN verneed) \X (1..MaxDyn) : p[2] \in DOMAIN verneed[p[1]].aux}

\* C17: after fill_verneed every index written for a versioned symbol of
\* a DSO is at least |version_definitions| + 2, two such symbols have the
\* same index exactly if they have the same DSO and the same ver_idx, also
\* when DSOs share a soname, and there are as many Vernaux entries as
\* distinct indices.
C17_OneIndexPerFileVersion ==
  vpc = "filled" =>
    /\ \A i \in Versioned : versym[i] >= Len(arg.version_definitions) + 2
    /\ \A i, j \in Versioned :
         versym[i] = versym[j] <=>
           (dynsym[i].file = dynsym[j].file /\ dynsym[i].ver_idx = dynsym[j].ver_idx)
    /\ Cardinality(VernauxEntries) = Cardinality({versym[i] : i \in Versioned})

(***************************************************************************)
(* bin_sections.                                                           *)
(***************************************************************************)
MaxSecs == 2

BinObjs == <<"a.o", "b.o", "c.o">>


\* ObjectFile::sections of one object: each entry null or an input section,
\* given by the idx of its output_section.
SectionTables == SeqsUpTo({NULL} \cup {"0", "1"}, MaxSecs)

OsecIdx == {"0", "1"}

RECURSIVE split(_, _)
\* std::vector<std::span<T>> split(input, unit), for unit > 0
split(input, unit) ==
  IF Len(input) >= unit
  THEN <<SubSeq(input, 1, unit)>> \o split(SubSeq(input, unit + 1, Len(input)), unit)
  ELSE IF input # << >> THEN <<input>> ELSE << >>

\* The number of objects over 256, rounded up.
unitOf256 == (Len(objs) + 255) \div 256

unit == (Len(objs) + 127) \div 128

slices == split(objs, unit)

\* An InputSection: the shndx-th entry of file->sections.
InputSection(file, shndx) == [file |-> file, shndx |-> shndx]

RECURSIVE BinFile(_, _, _)
\* The inner loop of a slice task over file->sections from the k-th entry
\* on: what it appends to each vector of group.
BinFile(file, k, group) ==
  IF k > Len(sections[file]) THEN group
  ELSE LET isec == sections[file][k]
       IN  IF isec # NULL
           THEN BinFile(file, k + 1,
                  [group EXCEPT ![isec] = Append(@, InputSection(file, k))])
           ELSE BinFile(file, k + 1, group)

RECURSIVE BinSlice(_, _, _)
\* The loop of a slice task over the files of its slice.
BinSlice(slice, f, group) ==
  IF f > Len(slice) THEN group
  ELSE BinSlice(slice, f + 1, BinFile(slice[f], 1, group))

RECURSIVE MembersOfReversed(_, _, _)
\* The loop of an append task with groups walked from the last to the first.
MembersOfReversed(j, i, ms) ==
  IF i > Len(groups) THEN ms
  ELSE MembersOfReversed(j, i + 1, groups[i][j] \o ms)

RECURSIVE MembersOf(_, _, _)
\* The loop of the append task of output section j from group i on.
MembersOf(j, i, ms) ==
  IF i > Len(groups) THEN ms
  ELSE MembersOf(j, i + 1, ms \o groups[i][j])

RECURSIVE SumSizes(_, _)
\* sizes[j] after the sequential loop over groups, from group i on.
SumSizes(j, i) ==
  IF i > Len(groups) THEN 0 ELSE Len(groups[i][j]) + SumSizes(j, i + 1)

InitBin ==
  /\ objs \in {SubSeq(BinObjs, 1, k) : k \in 1..Len(BinObjs)}
  /\ dsos = << >>
  /\ sections \in [Range(objs) -> SectionTables]
  /\ groups = << >>
  /\ sizes = [j \in OsecIdx |-> 0]
  /\ members = [j \in OsecIdx |-> << >>]
  /\ sym = << >> /\ errors = {}
  /\ todo = << >>
  /\ bpc = "bin_sections"

\* void bin_sections(ctx), up to the start of the first parallel_for.
bin_sections ==
  /\ bpc = "bin_sections"
  /\ groups' = [i \in 1..Len(slices) |-> [j \in OsecIdx |-> << >>]]
  /\ todo' = [i \in 1..Len(slices) |-> 1]
  /\ bpc' = "slices"
  /\ UNCHANGED <<objs, dsos, sym, errors, sections, sizes, members>>
  /\ UNCHANGED <<layoutVars, extraVars, resolveVars, verVars>>

\* Task i of the first parallel_for: it writes groups[i] only.
BinSliceStep(i) ==
  /\ bpc = "slices"
  /\ i \in DOMAIN todo /\ todo[i] = 1
  /\ groups' = [groups EXCEPT ![i] = BinSlice(slices[i], 1, @)]
  /\ todo' = [todo EXCEPT ![i] = 0]
  /\ UNCHANGED <<objs, dsos, sym, errors, sections, sizes, members, bpc>>
  /\ UNCHANGED <<layoutVars, extraVars, resolveVars, verVars>>

\* The first parallel_for returns; sizes is computed; the second starts.
JoinSlices ==
  /\ bpc = "slices"
  /\ \A i \in DOMAIN todo : todo[i] = 0
  /\ sizes' = [j \in OsecIdx |-> SumSizes(j, 1)]
  /\ todo' = [j \in OsecIdx |-> 1]
  /\ bpc' = "append"
  /\ UNCHANGED <<objs, dsos, sym, errors, sections, groups, members>>
  /\ UNCHANGED <<layoutVars, extraVars, resolveVars, verVars>>

\* Task j of the second parallel_for: it writes the members of output
\* section j only.
AppendStep(j) ==
  /\ bpc = "append"
  /\ todo[j] = 1
  /\ members' = [members EXCEPT ![j] = MembersOf(j, 1, @)]
  /\ todo' = [todo EXCEPT ![j] = 0]
  /\ UNCHANGED <<objs, dsos, sym, errors, sections, groups, sizes, bpc>>
  /\ UNCHANGED <<layoutVars, extraVars, resolveVars, verVars>>

JoinAppend ==
  /\ bpc = "append"
  /\ \A j \in OsecIdx : todo[j] = 0
  /\ bpc' = "binned"
  /\ UNCHANGED <<ctxVars, sections, groups, sizes, members>>
  /\ UNCHANGED <<layoutVars, extraVars, resolveVars, verVars>>

NextBin ==
  \/ bin_sections
  \/ \E i \in 1..Len(BinObjs) : BinSliceStep(i)
  \/ JoinSlices
  \/ \E j \in OsecIdx : AppendStep(j)
  \/ JoinAppend

StartBin == InitBin /\ IdleResolve /\ IdleVer /\ IdleLayout /\ IdleExtra

SpecBin == StartBin /\ [][NextBin]_vars

ObjIndex(file) == CHOOSE i \in 1..Len(objs) : objs[i] = file

\* The non-null input sections whose output_section is j.
SectionsOf(j) ==
  {InputSection(file, k) : <<file, k>> \in
     {p \in Range(objs) \X (1..MaxSecs) :
        p[2] <= Len(sections[p[1]]) /\ sections[p[1]][p[2]] = j}}

Before(a, b) ==
  \/ ObjIndex(a.file) < ObjIndex(b.file)
  \/ a.file = b.file /\ a.shndx < b.shndx

\* C7: after bin_sections the members of every output section are the
\* non-null input sections whose output_section it is, each once, ordered
\* by (index of the object in objs, index of the section in the object),
\* whatever the order the slice tasks and the append tasks ran in.
C7_MembersInOrder ==
  bpc = "binned" =>
    \A j \in OsecIdx :
      /\ Range(members[j]) = SectionsOf(j)
      /\ Len(members[j]) = Cardinality(SectionsOf(j))
      /\ Len(members[j]) = sizes[j]
      /\ \A x, y \in 1..Len(members[j]) :
           x < y => Before(members[j][x], members[j][y])

\* C7 witness: three objects were binned, output section 0 got a section of
\* each, two of them from one object around a null entry or a section of
\* the other output section.
C7_Witness ==
  /\ bpc = "binned"
  /\ Len(objs) = 3
  /\ Len(members["0"]) >= 3
  /\ \E x \in 1..(Len(members["0"]) - 1) :
       members["0"][x].file = "a.o" /\ members["0"][x + 1].file = "b.o"
  /\ \E f \in Range(objs) : sections[f] = <<"1", "0">>
  /\ \E f \in Range(objs) : Len(sections[f]) >= 1 /\ sections[f][1] = NULL

(***************************************************************************)
(* scan_rels.                                                              *)
(***************************************************************************)
NEEDS_DYNSYM == "NEEDS_DYNSYM"
NEEDS_GOT == "NEEDS_GOT"
NEEDS_PLT == "NEEDS_PLT"
NEEDS_GOTTPOFF == "NEEDS_GOTTPOFF"
NEEDS_TLSGD == "NEEDS_TLSGD"
NEEDS_TLSDESC == "NEEDS_TLSDESC"
NEEDS_TLSLD == "NEEDS_TLSLD"
NEEDS_COPYREL == "NEEDS_COPYREL"

\* ctx.got, ctx.plt, ctx.pltgot, ctx.dynbss and ctx.dynbss_relro with no
\* symbol added, and the symbols a copy relocation gave has_copyrel.
EmptyTables ==
  [got |-> << >>, plt |-> << >>, pltgot |-> << >>, dynbss |-> << >>,
   dynbss_relro |-> << >>, has_copyrel |-> {}]

\* The files scan_rels aggregates: ctx.objs, then ctx.dsos.
files == objs \o dsos

\* ObjectFile::scan_relocations for the relocations of file against name
\* n: they set their flags on the symbol; a relocation against a symbol no
\* file defines is an error.
ScanRelocation(file, n, sy, errs) ==
  IF relocs[file][n] = {} THEN [sym |-> sy, errors |-> errs]
  ELSE IF sy[n].file = NULL
  THEN [sym |-> sy,
        errors |-> errs \cup {[file |-> file, sym |-> n, undefined |-> TRUE]}]
  ELSE [sym |-> [sy EXCEPT ![n].flags = @ \cup relocs[file][n]],
        errors |-> errs]

RECURSIVE ScanRelocations(_, _, _, _)
\* ObjectFile::scan_relocations of file, from the i-th name on.
ScanRelocations(file, i, sy, errs) ==
  IF i > Len(SymOrder) THEN [sym |-> sy, errors |-> errs]
  ELSE LET r == ScanRelocation(file, SymOrder[i], sy, errs)
       IN  ScanRelocations(file, i + 1, r.sym, r.errors)

\* void scan_rels(ctx): the start of the loop "Scan relocations to find
\* dynamic symbols".
scan_rels ==
  /\ ppc = "scan_rels"
  /\ ppc' = "scan_relocations"
  /\ todo' = [f \in Range(objs) |-> 1]
  /\ UNCHANGED <<objs, dsos, sym, errors, symbols, relocs, readonly, vec,
                 tables>>
  /\ UNCHANGED <<layoutVars, resolveVars, verVars, binVars, sizeVars, moreVars>>

\* One task of that loop.
ScanRelocationsStep(file) ==
  /\ ppc = "scan_relocations"
  /\ file \in DOMAIN todo
  /\ todo[file] = 1
  /\ LET r == ScanRelocations(file, 1, sym, errors)
     IN  sym' = r.sym /\ errors' = r.errors
  /\ todo' = [todo EXCEPT ![file] = 0]
  /\ UNCHANGED <<objs, dsos, symbols, relocs, readonly, vec, tables, ppc>>
  /\ UNCHANGED <<layoutVars, resolveVars, verVars, binVars, sizeVars, moreVars>>

\* The loop has joined: Error::checkpoint exits if an error was recorded,
\* otherwise "Add imported or exported symbols to .dynsym" starts.
ScanCheckpoint ==
  /\ ppc = "scan_relocations"
  /\ TasksJoined
  /\ IF errors # {}
     THEN ppc' = "exit" /\ UNCHANGED todo
     ELSE ppc' = "needs_dynsym" /\ todo' = [f \in Range(objs) |-> 1]
  /\ UNCHANGED <<objs, dsos, sym, errors, symbols, relocs, readonly, vec,
                 tables>>
  /\ UNCHANGED <<layoutVars, resolveVars, verVars, binVars, sizeVars, moreVars>>

\* The test under which the task for file sets NEEDS_DYNSYM on a symbol.
NeedsDynsym(file, sy) == sy.file = file /\ (sy.is_imported \/ sy.is_exported)

\* One task of "Add imported or exported symbols to .dynsym".
NeedsDynsymStep(file) ==
  /\ ppc = "needs_dynsym"
  /\ file \in DOMAIN todo
  /\ todo[file] = 1
  /\ sym' = [n \in SymNames |->
               IF n \in Range(symbols[file]) /\ NeedsDynsym(file, sym[n])
               THEN [sym[n] EXCEPT !.flags = @ \cup {NEEDS_DYNSYM}]
               ELSE sym[n]]
  /\ todo' = [todo EXCEPT ![file] = 0]
  /\ UNCHANGED <<objs, dsos, errors, symbols, relocs, readonly, vec, tables,
                 ppc>>
  /\ UNCHANGED <<layoutVars, resolveVars, verVars, binVars, sizeVars, moreVars>>

\* The loop has joined; vec is made and the parallel_for over the files
\* starts.
JoinNeedsDynsym ==
  /\ ppc = "needs_dynsym"
  /\ TasksJoined
  /\ ppc' = "collect"
  /\ vec' = [i \in 1..Len(files) |-> << >>]
  /\ todo' = [i \in 1..Len(files) |-> 1]
  /\ UNCHANGED <<objs, dsos, sym, errors, symbols, relocs, readonly, tables>>
  /\ UNCHANGED <<layoutVars, resolveVars, verVars, binVars, sizeVars, moreVars>>

\* The symbols of files[i] a task collects if it does not test the owner.
FlaggedAnyOwner(i) ==
  LET Keep(n) == sym[n].flags # {}
  IN  SelectSeq(symbols[files[i]], Keep)

\* The symbols of files[i] its task pushes to vec[i].
Flagged(i) ==
  LET Keep(n) == sym[n].flags # {} /\ sym[n].file = files[i]
  IN  SelectSeq(symbols[files[i]], Keep)

\* One task of the parallel_for.
CollectStep(i) ==
  /\ ppc = "collect"
  /\ i \in DOMAIN todo
  /\ todo[i] = 1
  /\ vec' = [vec EXCEPT ![i] = Flagged(i)]
  /\ todo' = [todo EXCEPT ![i] = 0]
  /\ UNCHANGED <<objs, dsos, sym, errors, symbols, relocs, readonly, tables,
                 ppc>>
  /\ UNCHANGED <<layoutVars, resolveVars, verVars, binVars, sizeVars, moreVars>>

RECURSIVE flatten(_, _)
\* flatten(vec), from vec[i] on.
flatten(v, i) == IF i > Len(v) THEN << >> ELSE v[i] \o flatten(v, i + 1)

\* DynsymSection::add_symbol: the first call makes the null entry 0; a
\* symbol that has a dynsym index is not added again.
dynsym_add_symbol(dyn, n) ==
  IF \E i \in DOMAIN dyn : dyn[i] = n THEN dyn
  ELSE IF DOMAIN dyn = {} THEN [i \in 0..1 |-> IF i = 0 THEN NULL ELSE n]
  ELSE [i \in 0..Cardinality(DOMAIN dyn) |->
          IF i \in DOMAIN dyn THEN dyn[i] ELSE n]

\* GotSection::add_tlsld: one slot, made by the first call.
add_tlsld(got) ==
  IF \E i \in DOMAIN got : got[i].kind = "tlsld" THEN got
  ELSE Append(got, [kind |-> "tlsld", sym |-> NULL])

\* SharedFile::find_aliases(sym): the other symbols of the DSO at the
\* address of sym, which in these DSOs is every other symbol of it.
find_aliases(file, n) ==
  LET Other(m) == m # n
  IN  SelectSeq(symbols[file], Other)

RECURSIVE AddAliases(_, _, _)
AddAliases(st, al, i) ==
  IF i > Len(al) THEN st
  ELSE AddAliases([dynsym |-> dynsym_add_symbol(st.dynsym, al[i]),
                   tables |-> [st.tables EXCEPT
                                 !.has_copyrel = @ \cup {al[i]}]],
                  al, i + 1)

\* The body of the loop "Assign offsets in additional tables for each
\* dynamic symbol" for symbol n: st holds .dynsym and the other tables.
AssignOffsets(st, n) ==
  LET fl == sym[n].flags
      s1 == IF NEEDS_DYNSYM \in fl
            THEN [st EXCEPT !.dynsym = dynsym_add_symbol(@, n)] ELSE st
      s2 == IF NEEDS_GOT \in fl
            THEN [s1 EXCEPT !.tables.got = Append(@, [kind |-> "got", sym |-> n])]
            ELSE s1
      s3 == IF NEEDS_PLT \in fl
            THEN IF NEEDS_GOT \in fl
                 THEN [s2 EXCEPT !.tables.pltgot = Append(@, n)]
                 ELSE [s2 EXCEPT !.tables.plt = Append(@, n)]
            ELSE s2
      s4 == IF NEEDS_GOTTPOFF \in fl
            THEN [s3 EXCEPT !.tables.got =
                               Append(@, [kind |-> "gottpoff", sym |-> n])]
            ELSE s3
      s5 == IF NEEDS_TLSGD \in fl
            THEN [s4 EXCEPT !.tables.got =
                               Append(@, [kind |-> "tlsgd", sym |-> n])]
            ELSE s4
      s6 == IF NEEDS_TLSDESC \in fl
            THEN [s5 EXCEPT !.tables.got =
                               Append(@, [kind |-> "tlsdesc", sym |-> n])]
            ELSE s5
      s7 == IF NEEDS_TLSLD \in fl
            THEN [s6 EXCEPT !.tables.got = add_tlsld(@)] ELSE s6
      s8 == IF NEEDS_COPYREL \in fl
            THEN LET placed ==
                       IF n \in readonly
                       THEN [s7 EXCEPT !.tables.dynbss_relro = Append(@, n)]
                       ELSE [s7 EXCEPT !.tables.dynbss = Append(@, n)]
                 IN  AddAliases(placed, find_aliases(sym[n].file, n), 1)
            ELSE s7
  IN  s8

RECURSIVE AssignLoop(_, _, _)
\* That loop over the flattened vector q, from its i-th symbol on.
AssignLoop(st, q, i) ==
  IF i > Len(q) THEN st ELSE AssignLoop(AssignOffsets(st, q[i]), q, i + 1)

\* The parallel_for has joined; the serial loop assigns the offsets and
\* scan_rels returns.
JoinCollect ==
  /\ ppc = "collect"
  /\ TasksJoined
  /\ LET st == AssignLoop([dynsym |-> dynsym, tables |-> tables],
                          flatten(vec, 1), 1)
     IN  dynsym' = st.dynsym /\ tables' = st.tables
  /\ ppc' = "scanned"
  /\ UNCHANGED <<ctxVars, symbols, relocs, readonly, vec>>
  /\ UNCHANGED <<arg, symvers, undefs, versym, verdef, verneed, vpc>>
  /\ UNCHANGED <<layoutVars, resolveVars, binVars, sizeVars, moreVars>>

(***************************************************************************)
(* scan_rels on its own, on any resolved link of two objects and a DSO.    *)
(***************************************************************************)
ScanObjs == <<"a.o", "b.o">>
ScanDsos == <<"x.so">>
ScanFiles == Range(ScanObjs) \cup Range(ScanDsos)

\* InputFile::symbols of the files: x.so may hold two versions of foo,
\* which are two entries for the one interned symbol.
ScanSymbols ==
  {s \in [ScanFiles -> SeqsUpTo(SymNames, 2)] :
     /\ s["a.o"] \in {<<"foo">>, <<"foo", "bar">>, <<"bar", "foo">>}
     /\ s["b.o"] \in {<< >>, <<"foo">>}
     /\ s["x.so"] \in {<< >>, <<"foo">>, <<"foo", "foo">>, <<"bar", "foo">>}}

\* The flags the relocations of an object can ask for on foo and on bar.
FooRelocs ==
  {{}, {NEEDS_GOT}, {NEEDS_PLT}, {NEEDS_GOT, NEEDS_PLT}, {NEEDS_COPYREL},
   {NEEDS_TLSGD, NEEDS_TLSLD}}
BarRelocs == {{}, {NEEDS_GOTTPOFF, NEEDS_TLSDESC, NEEDS_TLSLD}}

InitScan ==
  /\ objs = ScanObjs
  /\ dsos = ScanDsos
  /\ symbols \in ScanSymbols
  /\ sym \in {t \in [SymNames ->
                       [file : ScanFiles \cup {NULL}, ver_idx : {VER_NDX_GLOBAL},
                        visibility : {"STV_DEFAULT"}, type : {"STT_FUNC"},
                        is_exported : BOOLEAN, is_imported : BOOLEAN,
                        flags : {{}}]] :
                \A n \in SymNames :
                  /\ t[n].file # NULL => n \in Range(symbols[t[n].file])
                  /\ t[n].is_imported = (t[n].file \in Range(ScanDsos))
                  /\ t[n].is_exported => t[n].file \in Range(ScanObjs)
                  /\ t["bar"].is_exported => t["foo"].is_exported}
  /\ relocs \in {r \in [Range(ScanObjs) -> [foo : FooRelocs, bar : BarRelocs]] :
                   /\ \A f \in Range(ScanObjs) : \A n \in SymNames :
                        /\ r[f][n] # {} => n \in Range(symbols[f])
                        /\ NEEDS_COPYREL \in r[f][n] =>
                             sym[n].file \in Range(ScanDsos)
                   /\ r["b.o"]["foo"] \in {{}, {NEEDS_PLT}}}
  /\ readonly \in {ro \in SUBSET {"foo"} :
                     \A n \in ro : NEEDS_COPYREL \in relocs["a.o"][n]}
  /\ vec = << >>
  /\ tables = EmptyTables
  /\ errors = {}
  /\ todo = << >>
  /\ ppc = "scan_rels"

NextScan ==
  \/ scan_rels
  \/ \E file \in Range(ScanObjs) : ScanRelocationsStep(file)
  \/ ScanCheckpoint
  \/ \E file \in Range(ScanObjs) : NeedsDynsymStep(file)
  \/ JoinNeedsDynsym
  \/ \E i \in 1..(Len(ScanObjs) + Len(ScanDsos)) : CollectStep(i)
  \/ JoinCollect

StartScan ==
  InitScan /\ IdleResolve /\ IdleVer /\ IdleBin /\ IdleLayout /\ IdleSize
    /\ IdleMore

SpecScan == StartScan /\ [][NextScan]_vars

\* The places <<i, j>> of the symbol lists, file i of objs followed by
\* dsos and index j in its list, that hold a symbol with a flag set whose
\* owner is that file.
FlaggedPlaces ==
  {p \in UNION {{<<i, j>> : j \in 1..Len(symbols[files[i]])} :
                  i \in 1..Len(files)} :
     LET n == symbols[files[p[1]]][p[2]]
     IN  sym[n].flags # {} /\ sym[n].file = files[p[1]]}

PlaceLess(p, q) == p[1] < q[1] \/ (p[1] = q[1] /\ p[2] < q[2])

\* The position of place p when the places are ordered by (file, index).
PlaceRank(p) == 1 + Cardinality({q \in FlaggedPlaces : PlaceLess(q, p)})

\* The flags the relocations of all objects and the import/export marks
\* ask for on name n.
FlagsAskedFor(n) ==
  UNION {relocs[f][n] : f \in Range(objs)}
  \cup (IF \E f \in Range(objs) :
             n \in Range(symbols[f]) /\ NeedsDynsym(f, sym[n])
        THEN {NEEDS_DYNSYM} ELSE {})

\* C15: when scan_rels returns, the sequence it walked serially holds each
\* symbol with a flag set whose owner is in objs or dsos once per place of
\* it in the owner's symbol list, in the order of (owner's position in
\* objs followed by dsos, index in the list); the flags are those the
\* relocations and the import/export marks ask for, and .dynsym and the
\* GOT, PLT, PLTGOT, TLS and copyrel tables are the ones the serial walk of
\* that sequence makes, whatever the interleaving of the parallel loops.
C15_SerialWalkDeterministic ==
  ppc = "scanned" =>
    LET walk == flatten(vec, 1)
        st == AssignLoop([dynsym |-> << >>, tables |-> EmptyTables],
                         [k \in 1..Cardinality(FlaggedPlaces) |->
                            LET p == CHOOSE q \in FlaggedPlaces : PlaceRank(q) = k
                            IN  symbols[files[p[1]]][p[2]]], 1)
    IN  /\ Len(walk) = Cardinality(FlaggedPlaces)
        /\ \A p \in FlaggedPlaces : walk[PlaceRank(p)] = symbols[files[p[1]]][p[2]]
        /\ \A n \in SymNames : sym[n].flags = FlagsAskedFor(n)
        /\ dynsym = st.dynsym
        /\ tables = st.tables

\* scan_rels has returned; the walk held a symbol twice, for its two places
\* in the list of the DSO that owns it, symbols of an object and of the DSO,
\* and a symbol listed by a file that does not own it.
C15_Witness ==
  /\ ppc = "scanned"
  /\ \E p, q \in FlaggedPlaces :
       /\ p[1] = q[1] /\ p[2] # q[2]
       /\ symbols[files[p[1]]][p[2]] = symbols[files[q[1]]][q[2]]
  /\ \E p, q \in FlaggedPlaces : files[p[1]] = "a.o" /\ files[q[1]] = "x.so"
  /\ sym["foo"].file = "x.so" /\ "foo" \in Range(symbols["b.o"])
  /\ tables.got # << >>

(***************************************************************************)
(* The passes from check_duplicate_symbols to set_osec_offsets, called in  *)
(* the order of the pass table: 10 check_duplicate_symbols, 13 scan_rels,  *)
(* 14 parse_symbol_version, 15 compute_import_export, 17 set_osec_offsets. *)
(* The passes between them record no error, hold no checkpoint and write   *)
(* none of the fields below.                                               *)
(***************************************************************************)
\* The symbol tables of the two objects: a.o refers to foo or defines it,
\* b.o may do either; each may define bar.
PassSymtabs ==
  {t \in [Range(ExportObjs) -> [SymNames -> {"none", "undef", "def"}]] :
     /\ t["a.o"]["foo"] # "none"
     /\ \A f \in Range(ExportObjs) : t[f]["bar"] # "undef"}

\* InputFile::symbols of an object with the symbol table t.
ObjSymbols(t) ==
  LET Has(n) == t[n] # "none"
  IN  SelectSeq(SymOrder, Has)

\* The owner resolution leaves name n with: the object of least rank that
\* defines it, else the first DSO that has it, else none.
ResolvedOwner(n) ==
  LET b == MinRankBinding(objs, n)
      D == {i \in 1..Len(dsos) : n \in Range(symbols[dsos[i]])}
  IN  IF b.file # NULL THEN b.file
      ELSE IF D = {} THEN NULL
      ELSE dsos[CHOOSE i \in D : \A j \in D : i <= j]

\* A symbol as resolution leaves it: a symbol of a DSO is imported.
ResolvedSymbol(n, vis, exported) ==
  [file |-> ResolvedOwner(n), ver_idx |-> VER_NDX_GLOBAL, visibility |-> vis,
   type |-> "STT_FUNC",
   is_exported |-> exported /\ ResolvedOwner(n) \in Range(objs),
   is_imported |-> ResolvedOwner(n) \in Range(dsos), flags |-> {}]

\* The flags the relocations of the objects ask for: a.o refers to foo
\* through the GOT or the PLT or not at all, b.o through the GOT or not at
\* all.
PassRelocs ==
  {r \in [Range(ExportObjs) -> [SymNames -> SUBSET {NEEDS_GOT, NEEDS_PLT}]] :
     /\ \A f \in Range(ExportObjs) :
          r[f]["bar"] = {} /\ Cardinality(r[f]["foo"]) <= 1
     /\ NEEDS_PLT \notin r["b.o"]["foo"]}

InitPasses ==
  /\ objs = ExportObjs
  /\ dsos = ExportDsos
  /\ is_in_lib = [f \in Range(ExportObjs) |-> FALSE]
  /\ elf_syms \in PassSymtabs
  /\ undefined = << >>
  /\ priority = FilePriority(objs, dsos, is_in_lib)
  /\ is_alive = [f \in Range(ExportObjs) \cup Range(ExportDsos) |-> TRUE]
  /\ rpc = "check_duplicate_symbols"
  /\ submits = << >>
  /\ symbols \in {[f \in Range(ExportObjs) \cup Range(ExportDsos) |->
                     IF f \in Range(ExportObjs) THEN ObjSymbols(elf_syms[f])
                     ELSE IF f = "x.so" THEN x ELSE << >>] :
                  x \in {<< >>, <<"foo">>}}
  /\ dso_syms = [d \in Range(ExportDsos) |-> Range(symbols[d])]
  /\ sym_is_weak = << >>
  /\ sym = [n \in SymNames |-> ResolvedSymbol(n, "STV_DEFAULT", FALSE)]
  /\ relocs \in {r \in PassRelocs :
                   \A f \in Range(ExportObjs) :
                     elf_syms[f]["foo"] = "none" => r[f]["foo"] = {}}
  /\ readonly = {}
  /\ arg \in [version_definitions : {<<"V1">>}, shared : BOOLEAN,
              export_dynamic : BOOLEAN, Bsymbolic : {FALSE},
              Bsymbolic_functions : {FALSE}]
  /\ symvers \in {[f \in Range(ExportObjs) |->
                     [n \in SymNames |->
                        IF f = "a.o" /\ n = "foo" THEN v ELSE NoSuffix]] :
                  v \in {NoSuffix, <<"V1">>, <<"V3">>}}
  /\ undefs \in {[d \in Range(ExportDsos) |-> IF d = "x.so" THEN u ELSE {}] :
                 u \in {{}, {"foo"}}}
  /\ dynsym = << >> /\ versym = << >> /\ verdef = << >> /\ verneed = << >>
  /\ vpc = "idle"
  /\ vec = << >>
  /\ tables = EmptyTables
  /\ errors = {}
  /\ todo = << >>
  /\ ppc = "check_duplicate_symbols"

\* check_duplicate_symbols has returned: passes 11 and 12 run, scan_rels is
\* called.
RunScanRels ==
  /\ ppc = "check_duplicate_symbols"
  /\ rpc = "checked"
  /\ ppc' = "scan_rels"
  /\ UNCHANGED <<ctxVars, symbols, relocs, readonly, vec, tables>>
  /\ UNCHANGED <<layoutVars, resolveVars, verVars, binVars, sizeVars, moreVars>>

\* scan_rels has returned: parse_symbol_version is called.
RunParseSymbolVersion ==
  /\ ppc = "scanned"
  /\ ppc' = "parse_symbol_version"
  /\ vpc' = "parse_symbol_version"
  /\ UNCHANGED <<ctxVars, symbols, relocs, readonly, vec, tables>>
  /\ UNCHANGED <<arg, symvers, undefs, dynsym, versym, verdef, verneed>>
  /\ UNCHANGED <<layoutVars, resolveVars, binVars, sizeVars, moreVars>>

\* parse_symbol_version has returned: compute_import_export is called.
RunComputeImportExport ==
  /\ ppc = "parse_symbol_version"
  /\ vpc = "parsed"
  /\ ppc' = "compute_import_export"
  /\ vpc' = "compute_import_export"
  /\ todo' = [f \in Range(files) |-> 0]
  /\ UNCHANGED <<objs, dsos, sym, errors, symbols, relocs, readonly, vec,
                 tables>>
  /\ UNCHANGED <<arg, symvers, undefs, dynsym, versym, verdef, verneed>>
  /\ UNCHANGED <<layoutVars, resolveVars, binVars, sizeVars, moreVars>>

\* compute_import_export has returned: pass 16 runs, set_osec_offsets is
\* called.
RunSetOsecOffsets ==
  /\ ppc = "compute_import_export"
  /\ vpc = "exported"
  /\ ppc' = "set_osec_offsets"
  /\ UNCHANGED <<ctxVars, symbols, relocs, readonly, vec, tables>>
  /\ UNCHANGED <<layoutVars, resolveVars, verVars, binVars, sizeVars, moreVars>>

NextPasses ==
  \/ check_duplicate_symbols
  \/ RunScanRels
  \/ scan_rels
  \/ \E file \in Range(ExportObjs) : ScanRelocationsStep(file)
  \/ ScanCheckpoint
  \/ \E file \in Range(ExportObjs) : NeedsDynsymStep(file)
  \/ JoinNeedsDynsym
  \/ \E i \in 1..(Len(ExportObjs) + Len(ExportDsos)) : CollectStep(i)
  \/ JoinCollect
  \/ RunParseSymbolVersion
  \/ parse_symbol_version
  \/ \E file \in Range(ExportObjs) : ParseSymverStep(file)
  \/ JoinSymver
  \/ RunComputeImportExport
  \/ compute_import_export
  \/ \E file \in Range(ExportDsos) : ExportDsoStep(file)
  \/ JoinExportDsos
  \/ \E file \in Range(ExportObjs) : ExportObjStep(file)
  \/ JoinExportObjs
  \/ RunSetOsecOffsets

StartPasses == InitPasses /\ IdleBin /\ IdleLayout /\ IdleSize /\ IdleMore

SpecPasses == StartPasses /\ [][NextPasses]_vars

InDynsym(n) == \E i \in DOMAIN dynsym \ {0} : dynsym[i] = n

\* C13: when the passes have run in the order of the pass table, every
\* symbol that is imported or exported has NEEDS_DYNSYM in its flags and
\* is in .dynsym.
C13_ImportedExportedInDynsym ==
  ppc = "set_osec_offsets" =>
    \A n \in SymNames :
      (sym[n].is_imported \/ sym[n].is_exported) =>
        NEEDS_DYNSYM \in sym[n].flags /\ InDynsym(n)

ScanErrors == {e \in errors : "undefined" \in DOMAIN e}

MaxMembers == 4

\* The length of the slices of a section's members.  The pass cuts them
\* at every 10000th member; the model cuts them at every SliceUnit-th, so
\* that a section of MaxMembers members has several slices.
SliceUnit == 2

\* The <<sh_size, sh_addralign>> of the modelled input sections.
IsecShapes == {<<1, 1>>, <<3, 1>>, <<3, 4>>, <<8, 8>>, <<0, 2>>}

\* A member of an output section on entry to the pass.
SizedSection(k, shape) ==
  [file |-> "a.o", shndx |-> k, sh_size |-> shape[1],
   sh_addralign |-> shape[2], offset |-> -1]

\* OutputSection::members of the modelled sections: section "0" has up to
\* MaxMembers members or none, section "1" one member or none.
SizedMembers ==
  {[j \in OsecIdx |-> IF j = "0" THEN [k \in 1..Len(q) |-> SizedSection(k, q[k])]
                      ELSE [k \in 1..Len(r) |-> SizedSection(MaxMembers + k, r[k])]] :
     q \in SeqsUpTo(IsecShapes, MaxMembers), r \in {<< >>, <<(<<3, 4>>)>>}}

\* The shdr fields of an OutputSection before the pass wrote them.
NoShdr == [sh_size |-> 0, sh_addralign |-> 0]

\* The bounds of the i-th slice of split(members, SliceUnit) in members.
SliceFirst(i) == (i - 1) * SliceUnit + 1
SliceLast(ms, i) == IF i * SliceUnit <= Len(ms) THEN i * SliceUnit ELSE Len(ms)
NumSlices(ms) == Len(split(ms, SliceUnit))

InitSize ==
  /\ objs = <<"a.o">>
  /\ dsos = << >>
  /\ sym = << >> /\ errors = {}
  /\ todo = << >>
  /\ sections = << >> /\ groups = << >> /\ sizes = << >>
  /\ members \in SizedMembers
  /\ bpc = "idle"
  /\ osec_shdr = [j \in OsecIdx |-> NoShdr]
  /\ size = [j \in OsecIdx |-> << >>]
  /\ alignments = [j \in OsecIdx |-> << >>]
  /\ slice_start = [j \in OsecIdx |-> << >>]
  /\ cpc = [j \in OsecIdx |-> "compute_section_sizes"]

RECURSIVE SliceOffsets(_, _, _, _, _)
\* The loop of a task of the first parallel_for over the members k..last
\* of its slice: the members with their offset set, off and align.
SliceOffsets(ms, k, last, off, align) ==
  IF k > last THEN [members |-> ms, size |-> off, align |-> align]
  ELSE LET isec == ms[k]
           o == align_to(off, isec.sh_addralign)
       IN  SliceOffsets([ms EXCEPT ![k].offset = o], k + 1, last,
                        o + isec.sh_size, Max(align, isec.sh_addralign))

\* std::max_element of a non-empty vector.
max_element(v) == CHOOSE x \in Range(v) : \A y \in Range(v) : y <= x

RECURSIVE StartLoopUnaligned(_, _, _, _)
\* The loop over start without the alignment of the slice's start.
StartLoopUnaligned(st, sz, align, i) ==
  IF i > Len(st) THEN st
  ELSE StartLoopUnaligned([st EXCEPT ![i] = st[i - 1] + sz[i - 1]],
                          sz, align, i + 1)

RECURSIVE StartLoop(_, _, _, _)
\* The loop that sets start[i] for the slices after the first; i counts
\* from 1 here, so it starts at 2.
StartLoop(st, sz, align, i) ==
  IF i > Len(st) THEN st
  ELSE StartLoop([st EXCEPT ![i] = align_to(st[i - 1] + sz[i - 1], align)],
                 sz, align, i + 1)

SliceTasks(j) == {t \in DOMAIN todo : t[1] = j}

\* The task of output section osec in parallel_for_each starts: it
\* returns if osec has no members, else it splits them and starts the
\* first parallel_for over the slices.
compute_section_sizes(j) ==
  /\ cpc[j] = "compute_section_sizes"
  /\ IF members[j] = << >>
     THEN /\ cpc' = [cpc EXCEPT ![j] = "done"]
          /\ UNCHANGED <<todo, size, alignments>>
     ELSE LET n == NumSlices(members[j])
          IN  /\ cpc' = [cpc EXCEPT ![j] = "offsets"]
              /\ size' = [size EXCEPT ![j] = [i \in 1..n |-> 0]]
              /\ alignments' = [alignments EXCEPT ![j] = [i \in 1..n |-> 0]]
              /\ todo' = [t \in DOMAIN todo \cup {<<j, i>> : i \in 1..n} |->
                            IF t[1] = j THEN 1 ELSE todo[t]]
  /\ UNCHANGED <<objs, dsos, sym, errors, sections, groups, sizes, members,
                 bpc, osec_shdr, slice_start>>
  /\ UNCHANGED <<layoutVars, resolveVars, verVars, scanVars, moreVars>>

\* One task of the first parallel_for: the offsets of the members of slice
\* i within the slice, its size and its alignment.
SliceOffsetsStep(j, i) ==
  /\ cpc[j] = "offsets"
  /\ <<j, i>> \in DOMAIN todo
  /\ todo[<<j, i>>] = 1
  /\ LET r == SliceOffsets(members[j], SliceFirst(i),
                           SliceLast(members[j], i), 0, 1)
     IN  /\ members' = [members EXCEPT ![j] = r.members]
         /\ size' = [size EXCEPT ![j][i] = r.size]
         /\ alignments' = [alignments EXCEPT ![j][i] = r.align]
  /\ todo' = [todo EXCEPT ![<<j, i>>] = 0]
  /\ UNCHANGED <<objs, dsos, sym, errors, sections, groups, sizes, bpc,
                 osec_shdr, slice_start, cpc>>
  /\ UNCHANGED <<layoutVars, resolveVars, verVars, scanVars, moreVars>>

\* The first parallel_for has joined: align and start are computed and the
\* second parallel_for starts, over the slices after the first.
JoinSliceOffsets(j) ==
  /\ cpc[j] = "offsets"
  /\ \A t \in SliceTasks(j) : todo[t] = 0
  /\ LET n == Len(size[j])
         align == max_element(alignments[j])
     IN  slice_start' = [slice_start EXCEPT ![j] =
                     StartLoop([i \in 1..n |-> 0], size[j], align, 2)]
  /\ todo' = [t \in DOMAIN todo |-> IF t[1] = j /\ t[2] >= 2 THEN 1 ELSE todo[t]]
  /\ cpc' = [cpc EXCEPT ![j] = "shift"]
  /\ UNCHANGED <<objs, dsos, sym, errors, sections, groups, sizes, members,
                 bpc, osec_shdr, size, alignments>>
  /\ UNCHANGED <<layoutVars, resolveVars, verVars, scanVars, moreVars>>

\* One task of the second parallel_for: isec->offset += start[i] for the
\* members of slice i.
ShiftStep(j, i) ==
  /\ cpc[j] = "shift"
  /\ <<j, i>> \in DOMAIN todo
  /\ todo[<<j, i>>] = 1
  /\ members' = [members EXCEPT ![j] =
                   [k \in 1..Len(@) |->
                      IF k >= SliceFirst(i) /\ k <= SliceLast(@, i)
                      THEN [@[k] EXCEPT !.offset = @ + slice_start[j][i]]
                      ELSE @[k]]]
  /\ todo' = [todo EXCEPT ![<<j, i>>] = 0]
  /\ UNCHANGED <<objs, dsos, sym, errors, sections, groups, sizes, bpc,
                 osec_shdr, size, alignments, slice_start, cpc>>
  /\ UNCHANGED <<layoutVars, resolveVars, verVars, scanVars, moreVars>>

\* The second parallel_for has joined: sh_size and sh_addralign of the
\* output section are set and its task returns.
JoinShift(j) ==
  /\ cpc[j] = "shift"
  /\ \A t \in SliceTasks(j) : todo[t] = 0
  /\ osec_shdr' = [osec_shdr EXCEPT ![j] =
                     [sh_size |-> slice_start[j][Len(slice_start[j])] + size[j][Len(size[j])],
                      sh_addralign |-> max_element(alignments[j])]]
  /\ cpc' = [cpc EXCEPT ![j] = "done"]
  /\ UNCHANGED <<ctxVars, binVars, size, alignments, slice_start>>
  /\ UNCHANGED <<layoutVars, resolveVars, verVars, scanVars, moreVars>>

NextSize ==
  \/ \E j \in OsecIdx : compute_section_sizes(j)
  \/ \E j \in OsecIdx : \E i \in 1..MaxMembers : SliceOffsetsStep(j, i)
  \/ \E j \in OsecIdx : JoinSliceOffsets(j)
  \/ \E j \in OsecIdx : \E i \in 1..MaxMembers : ShiftStep(j, i)
  \/ \E j \in OsecIdx : JoinShift(j)

StartSize ==
  InitSize /\ IdleResolve /\ IdleVer /\ IdleLayout /\ IdleScan /\ IdleMore

SpecSize == StartSize /\ [][NextSize]_vars

\* C16: when the task of an output section with members has returned,
\* every member's offset is a multiple of its sh_addralign, a member ends
\* at or before the offset of the next, sh_addralign of the output section
\* is the largest of the members' and sh_size is the end of the last
\* member; an output section with no members is as it was.
C16_SectionLayout ==
  \A j \in OsecIdx :
    cpc[j] = "done" =>
      LET ms == members[j]
      IN  IF ms = << >> THEN osec_shdr[j] = NoShdr
          ELSE /\ \A k \in 1..Len(ms) : ms[k].offset % ms[k].sh_addralign = 0
               /\ \A k \in 1..(Len(ms) - 1) :
                    ms[k].offset + ms[k].sh_size <= ms[k + 1].offset
               /\ ms[1].offset >= 0
               /\ \A k \in 1..Len(ms) :
                    ms[k].sh_addralign <= osec_shdr[j].sh_addralign
               /\ \E k \in 1..Len(ms) :
                    ms[k].sh_addralign = osec_shdr[j].sh_addralign
               /\ osec_shdr[j].sh_size =
                    ms[Len(ms)].offset + ms[Len(ms)].sh_size

\* An output section of more than one slice is done: a later slice starts
\* with a member of the largest alignment, after a slice whose size is not
\* a multiple of it; the other output section has no members.
C16_Witness ==
  /\ cpc["0"] = "done" /\ cpc["1"] = "done"
  /\ members["1"] = << >>
  /\ Len(slice_start["0"]) >= 2
  /\ size["0"][1] % osec_shdr["0"].sh_addralign # 0
  /\ members["0"][SliceUnit + 1].sh_addralign = osec_shdr["0"].sh_addralign
  /\ members["0"][SliceUnit + 1].offset > size["0"][1]

(***************************************************************************)
(* apply_version_script.                                                   *)
(***************************************************************************)

MaxPatterns == 2

ScriptObjs == <<"a.o", "b.o">>
\* The globals of the modelled objects, as get_global_syms yields them.
ScriptOrder == <<"foo", "fob", "_Z3foov">>
ScriptNames == Range(ScriptOrder)

\* The characters of a symbol name or of a pattern.
Text(s) ==
  CASE s = "foo" -> <<"f", "o", "o">>
    [] s = "fob" -> <<"f", "o", "b">>
    [] s = "_Z3foov" -> <<"_", "Z", "3", "f", "o", "o", "v">>
    [] s = "foo()" -> <<"f", "o", "o", "(", ")">>
    [] s = "fo*" -> <<"f", "o", "*">>
    [] s = "*o" -> <<"*", "o">>

\* Symbol::get_demangled_name: the C++ name of a mangled symbol, the name
\* itself otherwise.
get_demangled_name(n) == IF n = "_Z3foov" THEN Text("foo()") ELSE Text(n)

RECURSIVE generic_match(_, _)
\* GlobPattern::match: '*' stands for any run of characters, every other
\* character for itself.
generic_match(pat, str) ==
  IF pat = << >> THEN str = << >>
  ELSE IF Head(pat) = "*"
  THEN \E i \in 0..Len(str) :
         generic_match(Tail(pat), SubSeq(str, i + 1, Len(str)))
  ELSE /\ str # << >>
       /\ Head(pat) = Head(str)
       /\ generic_match(Tail(pat), Tail(str))

\* pattern.find('*') != npos
HasStar(pattern) == \E i \in 1..Len(Text(pattern)) : Text(pattern)[i] = "*"

\* The test that sends an entry down the interning path.
IsLiteral(e) == ~e.is_extern_cpp /\ ~HasStar(e.pattern)

\* The entries of the modelled version scripts: names, globs and
\* extern "C++" patterns.
ScriptEntries ==
  {e \in [pattern : {"foo", "_Z3foov", "fo*", "*o", "foo()"},
          is_extern_cpp : BOOLEAN, ver_idx : {2, 3}] :
     /\ e.pattern = "foo()" => e.is_extern_cpp
     /\ e.pattern \in {"_Z3foov", "*o"} => ~e.is_extern_cpp}

InitScript ==
  /\ objs = ScriptObjs
  /\ dsos = <<"x.so">>
  /\ arg \in [version_patterns : SeqsUpTo(ScriptEntries, MaxPatterns)]
  /\ \E v \in {VER_NDX_LOCAL, VER_NDX_GLOBAL} :
       sym \in [foo : [file : {"a.o", "x.so", NULL}, ver_idx : {v}],
                fob : [file : {"b.o"}, ver_idx : {v}],
                _Z3foov : [file : {"a.o", "b.o"}, ver_idx : {v}]]
  /\ errors = {}
  /\ todo = [f \in Range(ScriptObjs) |-> 0]
  /\ symvers = << >> /\ undefs = << >> /\ dynsym = << >> /\ versym = << >>
  /\ verdef = << >> /\ verneed = << >>
  /\ vpc = "apply_version_script"
  /\ elem = 0

\* void apply_version_script(ctx): the loop over version_patterns starts.
apply_version_script ==
  /\ vpc = "apply_version_script"
  /\ elem' = 1
  /\ vpc' = "version_patterns"
  /\ UNCHANGED <<ctxVars, arg, symvers, undefs, dynsym, versym, verdef,
                 verneed>>
  /\ UNCHANGED <<layoutVars, resolveVars, binVars, scanVars, sizeVars,
                 comdatVars, restVars>>

\* An entry that is a plain name: the interned symbol of that name gets the
\* entry's ver_idx.
ApplyLiteral ==
  /\ vpc = "version_patterns"
  /\ elem <= Len(arg.version_patterns)
  /\ IsLiteral(arg.version_patterns[elem])
  /\ LET e == arg.version_patterns[elem]
     IN  sym' = [sym EXCEPT ![e.pattern].ver_idx = e.ver_idx]
  /\ elem' = elem + 1
  /\ UNCHANGED <<objs, dsos, errors, todo, arg, symvers, undefs, dynsym,
                 versym, verdef, verneed, vpc>>
  /\ UNCHANGED <<layoutVars, resolveVars, binVars, scanVars, sizeVars,
                 comdatVars, restVars>>

\* Any other entry: the glob is compiled and the parallel loop over
\* ctx.objs starts.
StartGlob ==
  /\ vpc = "version_patterns"
  /\ elem <= Len(arg.version_patterns)
  /\ ~IsLiteral(arg.version_patterns[elem])
  /\ todo' = [f \in Range(objs) |-> 1]
  /\ vpc' = "glob"
  /\ UNCHANGED <<objs, dsos, sym, errors, arg, symvers, undefs, dynsym,
                 versym, verdef, verneed, elem>>
  /\ UNCHANGED <<layoutVars, resolveVars, binVars, scanVars, sizeVars,
                 comdatVars, restVars>>

\* The name the glob is matched against, ignoring extern "C++".
ScriptNameRaw(e, n) == Text(n)

\* The name the glob is matched against.
ScriptName(e, n) == IF e.is_extern_cpp THEN get_demangled_name(n) ELSE Text(n)

RECURSIVE GlobLoop(_, _, _, _)
\* The loop of one task over the globals of file, from the i-th on.
GlobLoop(file, e, i, sy) ==
  IF i > Len(ScriptOrder) THEN sy
  ELSE LET n == ScriptOrder[i]
       IN  IF sy[n].file = file
                /\ generic_match(Text(e.pattern), ScriptName(e, n))
           THEN GlobLoop(file, e, i + 1, [sy EXCEPT ![n].ver_idx = e.ver_idx])
           ELSE GlobLoop(file, e, i + 1, sy)

\* One task of the parallel loop.
GlobStep(file) ==
  /\ vpc = "glob"
  /\ todo[file] = 1
  /\ sym' = GlobLoop(file, arg.version_patterns[elem], 1, sym)
  /\ todo' = [todo EXCEPT ![file] = 0]
  /\ UNCHANGED <<objs, dsos, errors, arg, symvers, undefs, dynsym, versym,
                 verdef, verneed, vpc, elem>>
  /\ UNCHANGED <<layoutVars, resolveVars, binVars, scanVars, sizeVars,
                 comdatVars, restVars>>

\* The parallel loop returns; the next entry is taken.
JoinGlob ==
  /\ vpc = "glob"
  /\ \A f \in Range(objs) : todo[f] = 0
  /\ elem' = elem + 1
  /\ vpc' = "version_patterns"
  /\ UNCHANGED <<ctxVars, arg, symvers, undefs, dynsym, versym, verdef,
                 verneed>>
  /\ UNCHANGED <<layoutVars, resolveVars, binVars, scanVars, sizeVars,
                 comdatVars, restVars>>

\* The loop over version_patterns has ended.
ReturnScript ==
  /\ vpc = "version_patterns"
  /\ elem > Len(arg.version_patterns)
  /\ vpc' = "applied"
  /\ UNCHANGED <<ctxVars, arg, symvers, undefs, dynsym, versym, verdef,
                 verneed, elem>>
  /\ UNCHANGED <<layoutVars, resolveVars, binVars, scanVars, sizeVars,
                 comdatVars, restVars>>

NextScript ==
  \/ apply_version_script
  \/ ApplyLiteral
  \/ StartGlob
  \/ \E file \in Range(ScriptObjs) : GlobStep(file)
  \/ JoinGlob
  \/ ReturnScript

StartScript ==
  InitScript /\ IdleResolve /\ IdleBin /\ IdleLayout /\ IdleScan /\ IdleSize
    /\ IdleComdat /\ IdleRest

SpecScript == StartScript /\ [][NextScript]_vars

\* Entry e of a version script matches the symbol named n: its pattern
\* matches the name, or the demangled name for an extern "C++" entry.
Matches(e, n) ==
  generic_match(Text(e.pattern),
                IF e.is_extern_cpp THEN get_demangled_name(n) ELSE Text(n))

\* The positions of the entries of version_patterns that match n.
Matching(n) ==
  {i \in 1..Len(arg.version_patterns) : Matches(arg.version_patterns[i], n)}

LastMatching(n) == CHOOSE i \in Matching(n) : \A j \in Matching(n) : j <= i

C18_Applied ==
  vpc = "applied" =>
    \A n \in ScriptNames :
      (sym[n].file \in Range(objs) /\ Matching(n) # {})
        => sym[n].ver_idx = arg.version_patterns[LastMatching(n)].ver_idx

C18_Kept ==
  vpc # "idle" =>
    \A n \in ScriptNames : Matching(n) = {} => sym'[n].ver_idx = sym[n].ver_idx

\* C18: when apply_version_script has returned, a global owned by an object
\* of ctx.objs that some entry of version_patterns matches has the ver_idx
\* of the last entry that matches it, whatever the kinds of the matching
\* entries; and no step of the pass changes the ver_idx of a symbol that no
\* entry matches.
C18_LastMatchWins == [](C18_Applied) /\ [][C18_Kept]_vars

\* C18 witness: the pass has returned; an object's symbol is matched by a
\* plain name and then by an extern "C++" entry, another by an extern "C++"
\* name and a glob, with different ver_idx each time.
C18_Witness ==
  /\ vpc = "applied"
  /\ Len(arg.version_patterns) = 2
  /\ arg.version_patterns[1].ver_idx # arg.version_patterns[2].ver_idx
  /\ IsLiteral(arg.version_patterns[1])
  /\ arg.version_patterns[2].is_extern_cpp
  /\ \E n \in ScriptNames :
       sym[n].file \in Range(objs) /\ Matching(n) = {1, 2}

(***************************************************************************)
(* eliminate_comdats.                                                      *)
(***************************************************************************)

MaxGroups == 2

ComdatObjs == <<"a.o", "b.o", "c.o">>
ComdatKeys == {"k1", "k2"}

\* The objects left after resolve_obj_symbols, b.o possibly an archive
\* member, each with the keys of its COMDAT groups.
InitComdat ==
  /\ objs = ComdatObjs
  /\ dsos = << >>
  /\ is_in_lib \in {l \in [Range(ComdatObjs) -> BOOLEAN] :
                      ~l["a.o"] /\ ~l["c.o"]}
  /\ priority = FilePriority(objs, dsos, is_in_lib)
  /\ is_alive = [f \in Range(ComdatObjs) |-> TRUE]
  /\ comdat_groups \in
       {g \in [Range(ComdatObjs) -> SeqsUpTo(ComdatKeys, MaxGroups)] :
          g["c.o"] \in {<< >>, <<"k1">>, <<"k2", "k1">>}}
  /\ comdat_owner = [k \in ComdatKeys |-> NULL]
  /\ kept = [f \in Range(ComdatObjs) |-> 1..Len(comdat_groups[f])]
  /\ tpc = [f \in Range(ComdatObjs) |-> "idle"]
  /\ todo = [f \in Range(ComdatObjs) |-> 0]
  /\ rpc = "eliminate_comdats"
  /\ sym = << >> /\ errors = {}
  /\ elf_syms = << >> /\ undefined = << >> /\ submits = << >>
  /\ dso_syms = << >> /\ sym_is_weak = << >>

\* void eliminate_comdats(ctx): the first parallel loop starts.
eliminate_comdats ==
  /\ rpc = "eliminate_comdats"
  /\ rpc' = "resolve_comdat_groups"
  /\ tpc' = [f \in Range(objs) |-> "resolve"]
  /\ todo' = [f \in Range(objs) |-> 1]
  /\ UNCHANGED <<objs, dsos, sym, errors, is_in_lib, elf_syms, undefined,
                 priority, is_alive, submits, dso_syms, sym_is_weak>>
  /\ UNCHANGED <<comdat_groups, comdat_owner, kept>>
  /\ UNCHANGED <<layoutVars, verVars, binVars, scanVars, sizeVars, scriptVars,
                 restVars>>

\* The registry entry of a key after object f has registered it: the key
\* resolves to the object of lower priority.
RegisterComdat(owner, f) ==
  IF owner = NULL \/ priority[f] < priority[owner] THEN f ELSE owner

\* file->resolve_comdat_groups() registers one group.
ResolveComdatStep(f) ==
  /\ tpc[f] = "resolve"
  /\ todo[f] <= Len(comdat_groups[f])
  /\ LET k == comdat_groups[f][todo[f]]
     IN  comdat_owner' = [comdat_owner EXCEPT ![k] = RegisterComdat(@, f)]
  /\ todo' = [todo EXCEPT ![f] = @ + 1]
  /\ UNCHANGED <<objs, dsos, sym, errors, is_in_lib, elf_syms, undefined,
                 priority, is_alive, rpc, submits, dso_syms, sym_is_weak>>
  /\ UNCHANGED <<comdat_groups, kept, tpc>>
  /\ UNCHANGED <<layoutVars, verVars, binVars, scanVars, sizeVars, scriptVars,
                 restVars>>

\* file->resolve_comdat_groups() returns.
ResolveComdatReturn(f) ==
  /\ tpc[f] = "resolve"
  /\ todo[f] > Len(comdat_groups[f])
  /\ tpc' = [tpc EXCEPT ![f] = "resolved"]
  /\ UNCHANGED <<ctxVars, resolveVars>>
  /\ UNCHANGED <<comdat_groups, comdat_owner, kept>>
  /\ UNCHANGED <<layoutVars, verVars, binVars, scanVars, sizeVars, scriptVars,
                 restVars>>

\* A parallel loop that returns as soon as one of its tasks has.
ComdatTasksJoinedSome(p) == \E f \in Range(objs) : tpc[f] = p

\* tbb::parallel_for_each returns when every task has returned.
ComdatTasksJoined(p) == \A f \in Range(objs) : tpc[f] = p

\* The first parallel loop returns, the second starts.
JoinResolveComdats ==
  /\ rpc = "resolve_comdat_groups"
  /\ ComdatTasksJoined("resolved")
  /\ rpc' = "eliminate_duplicate_comdat_groups"
  /\ UNCHANGED <<objs, dsos, sym, errors, todo, is_in_lib, elf_syms,
                 undefined, priority, is_alive, submits, dso_syms,
                 sym_is_weak>>
  /\ UNCHANGED <<comdatVars>>
  /\ UNCHANGED <<layoutVars, verVars, binVars, scanVars, sizeVars, scriptVars,
                 restVars>>

\* The task of the second loop for object f starts.
EliminateComdatStart(f) ==
  /\ rpc = "eliminate_duplicate_comdat_groups"
  /\ tpc[f] = "resolved"
  /\ tpc' = [tpc EXCEPT ![f] = "eliminate"]
  /\ todo' = [todo EXCEPT ![f] = 1]
  /\ UNCHANGED <<objs, dsos, sym, errors, resolveVars>>
  /\ UNCHANGED <<comdat_groups, comdat_owner, kept>>
  /\ UNCHANGED <<layoutVars, verVars, binVars, scanVars, sizeVars, scriptVars,
                 restVars>>

\* file->eliminate_duplicate_comdat_groups() handles one group: its
\* sections are disabled unless the key resolved to this object.
EliminateComdatStep(f) ==
  /\ tpc[f] = "eliminate"
  /\ todo[f] <= Len(comdat_groups[f])
  /\ LET k == comdat_groups[f][todo[f]]
     IN  kept' = IF comdat_owner[k] = f THEN kept
                 ELSE [kept EXCEPT ![f] = @ \ {todo[f]}]
  /\ todo' = [todo EXCEPT ![f] = @ + 1]
  /\ UNCHANGED <<objs, dsos, sym, errors, resolveVars>>
  /\ UNCHANGED <<comdat_groups, comdat_owner, tpc>>
  /\ UNCHANGED <<layoutVars, verVars, binVars, scanVars, sizeVars, scriptVars,
                 restVars>>

\* file->eliminate_duplicate_comdat_groups() returns.
EliminateComdatReturn(f) ==
  /\ tpc[f] = "eliminate"
  /\ todo[f] > Len(comdat_groups[f])
  /\ tpc' = [tpc EXCEPT ![f] = "eliminated"]
  /\ UNCHANGED <<ctxVars, resolveVars>>
  /\ UNCHANGED <<comdat_groups, comdat_owner, kept>>
  /\ UNCHANGED <<layoutVars, verVars, binVars, scanVars, sizeVars, scriptVars,
                 restVars>>

\* The second parallel loop returns, and eliminate_comdats with it.
JoinEliminateComdats ==
  /\ rpc = "eliminate_duplicate_comdat_groups"
  /\ ComdatTasksJoined("eliminated")
  /\ rpc' = "comdats_eliminated"
  /\ UNCHANGED <<objs, dsos, sym, errors, todo, is_in_lib, elf_syms,
                 undefined, priority, is_alive, submits, dso_syms,
                 sym_is_weak>>
  /\ UNCHANGED <<comdatVars>>
  /\ UNCHANGED <<layoutVars, verVars, binVars, scanVars, sizeVars, scriptVars,
                 restVars>>

NextComdat ==
  \/ eliminate_comdats
  \/ \E f \in Range(ComdatObjs) : ResolveComdatStep(f)
  \/ \E f \in Range(ComdatObjs) : ResolveComdatReturn(f)
  \/ JoinResolveComdats
  \/ \E f \in Range(ComdatObjs) : EliminateComdatStart(f)
  \/ \E f \in Range(ComdatObjs) : EliminateComdatStep(f)
  \/ \E f \in Range(ComdatObjs) : EliminateComdatReturn(f)
  \/ JoinEliminateComdats

StartComdat ==
  InitComdat /\ IdleVer /\ IdleBin /\ IdleLayout /\ IdleScan /\ IdleSize
    /\ IdleScript /\ IdleRest

SpecComdat == StartComdat /\ [][NextComdat]_vars

\* The objects that have a group of key k.
Registrants(k) ==
  {f \in Range(objs) : \E i \in 1..Len(comdat_groups[f]) : comdat_groups[f][i] = k}

\* Object f has kept every group of key k it has; has disabled every one.
KeepsKey(f, k) ==
  \A i \in 1..Len(comdat_groups[f]) : comdat_groups[f][i] = k => i \in kept[f]
DisabledKey(f, k) ==
  \A i \in 1..Len(comdat_groups[f]) : comdat_groups[f][i] = k => i \notin kept[f]

\* C20: while an object is in resolve_comdat_groups, or has not started it,
\* no object is in or past eliminate_duplicate_comdat_groups; and when
\* eliminate_comdats has returned, the groups of each key are kept by the
\* object of lowest priority among those that have the key and by no other,
\* whose sections of that key are all disabled.
C20_OneOwnerPerKey ==
  /\ \A f, g \in Range(objs) :
       tpc[f] \in {"eliminate", "eliminated"} => tpc[g] \notin {"idle", "resolve"}
  /\ rpc = "comdats_eliminated" =>
       \A k \in ComdatKeys :
         Registrants(k) # {} =>
           \E w \in Registrants(k) :
             /\ \A f \in Registrants(k) : priority[w] <= priority[f]
             /\ KeepsKey(w, k)
             /\ \A f \in Registrants(k) \ {w} : DisabledKey(f, k)

\* C20 witness: eliminate_comdats has returned; a key that an archive
\* member and a later object both have is kept by the later object, and a
\* key is in three objects.
C20_Witness ==
  /\ rpc = "comdats_eliminated"
  /\ \E k \in ComdatKeys :
       /\ Registrants(k) = {"b.o", "c.o"}
       /\ KeepsKey("c.o", k) /\ DisabledKey("b.o", k)
  /\ \E k \in ComdatKeys : Registrants(k) = Range(objs)

(***************************************************************************)
(* align_with_skew, on its own and within set_osec_offsets.                *)
(***************************************************************************)

MaxVal == 20

\* The arguments of the modelled calls: val near zero and near the largest
\* word, align a power of two, skew below align.
SkewVals == (0..MaxVal) \cup ((WordSize - 1 - MaxVal)..(WordSize - 1))
SkewAligns == {1, 2, 4, 8}

\* Either a call of align_with_skew is about to be made, or a list of
\* chunks is about to be laid out.
InitSkew ==
  \/ /\ aws \in {a \in [val : SkewVals, align : SkewAligns, skew : 0..7] :
                     a.skew < a.align}
     /\ IdleLayout
  \/ /\ aws = << >>
     /\ InitLayout

\* The call returns.
CallAlignWithSkew ==
  /\ DOMAIN aws = {"val", "align", "skew"}
  /\ aws' = [val |-> aws.val, align |-> aws.align, skew |-> aws.skew,
             n |-> align_with_skew(aws.val, aws.align, aws.skew)]
  /\ UNCHANGED <<layoutVars, ctxVars, resolveVars, verVars, binVars,
                 scanVars, sizeVars, scriptVars, comdatVars, memsets,
                 sliceVars>>

NextSkew ==
  \/ CallAlignWithSkew
  \/ set_osec_offsets

StartSkew ==
  /\ InitSkew
  /\ memsets = << >>
  /\ IdleCtx /\ IdleResolve /\ IdleVer /\ IdleBin /\ IdleScan /\ IdleSize
  /\ IdleScript /\ IdleComdat /\ IdleSlices

SpecSkew == StartSkew /\ [][NextSkew]_vars

Called == "n" \in DOMAIN aws

\* n is the smallest number that is at least val and congruent to skew
\* modulo align.
SmallestAtOrAbove(n, val, align, skew) ==
  /\ n >= val
  /\ n % align = skew
  /\ \A m \in val..(n - 1) : m % align # skew

\* Some word is at least val and congruent to skew modulo align.
SkewedWordExists(val, align, skew) ==
  \E m \in val..(WordSize - 1) : m < val + align /\ m % align = skew

\* File end of a chunk: where the bytes it has in the file end.
FileEnd(c) == IF c.sh_type = SHT_NOBITS THEN c.sh_offset ELSE c.sh_offset + c.sh_size

\* The chunks follow one another in the file and the file holds them all.
ChunksInFileOrder ==
  OffsetsSet =>
    /\ \A i \in 2..Len(chunks) : chunks[i].sh_offset >= FileEnd(chunks[i - 1])
    /\ \A i \in 1..Len(chunks) :
         chunks[i].sh_type # SHT_NOBITS
           => fileoff >= chunks[i].sh_offset + chunks[i].sh_size

zeroAnyType(chunk, next_start) ==
  LET pos == chunk.sh_offset + chunk.sh_size
  IN  [pos |-> pos, len |-> next_start - pos]

\* The lambda zero of clear_padding: the memset it calls.
zero(chunk, next_start) ==
  LET pos == IF chunk.sh_type # SHT_NOBITS
             THEN chunk.sh_offset + chunk.sh_size
             ELSE chunk.sh_offset
  IN  [pos |-> pos, len |-> next_start - pos]

\* void clear_padding(ctx, filesize), filesize being the value
\* set_osec_offsets returned.
clear_padding ==
  /\ lpc = "done"
  /\ memsets' = [i \in 1..Len(chunks) |->
                   IF i < Len(chunks)
                   THEN zero(chunks[i], chunks[i + 1].sh_offset)
                   ELSE zero(chunks[i], fileoff)]
  /\ lpc' = "padded"
  /\ UNCHANGED <<chunks, image_base, fileoff, vaddr, chunk_vaddr, synth,
                 interned>>
  /\ UNCHANGED <<ctxVars, resolveVars, verVars, binVars, scanVars, sizeVars,
                 scriptVars, comdatVars, aws, sliceVars>>

NextPad ==
  \/ set_osec_offsets
  \/ fix_synthetic_symbols
  \/ clear_padding

StartPad ==
  /\ InitLayout
  /\ aws = << >> /\ memsets = << >>
  /\ IdleCtx /\ IdleResolve /\ IdleVer /\ IdleBin /\ IdleScan /\ IdleSize
  /\ IdleScript /\ IdleComdat /\ IdleSlices

SpecPad == StartPad /\ [][NextPad]_vars

\* Byte b of the file was written by a memset.
Zeroed(b) ==
  \E k \in 1..Len(memsets) :
    memsets[k].pos <= b /\ b < memsets[k].pos + memsets[k].len

\* Byte b lies between the file end of a chunk and the start of the next
\* chunk, or the end of the file after the last chunk.
InPadding(b) ==
  \E i \in 1..Len(chunks) :
    /\ FileEnd(chunks[i]) <= b
    /\ b < (IF i < Len(chunks) THEN chunks[i + 1].sh_offset ELSE fileoff)

\* The offsets at which a range of bytes written, a chunk or a gap begins
\* or ends, and the bytes just before them: two unions of ranges that agree
\* on these bytes agree on every byte.
EdgeBytes ==
  LET edges == {0, fileoff}
                 \cup {memsets[k].pos : k \in 1..Len(memsets)}
                 \cup {memsets[k].pos + memsets[k].len : k \in 1..Len(memsets)}
                 \cup {chunks[i].sh_offset : i \in 1..Len(chunks)}
                 \cup {FileEnd(chunks[i]) : i \in 1..Len(chunks)}
  IN  {b \in edges \cup {e - 1 : e \in edges} \cup {e + 1 : e \in edges} :
         0 <= b /\ b < fileoff}

\* C24: clear_padding, run on the chunks as set_osec_offsets laid them out
\* and with the file size it returned, writes a byte of the file iff the
\* byte lies between the file end of a chunk and the start of the next
\* chunk or the end of the file; no memset has a negative length or ends
\* beyond the file size, and none writes a byte of a chunk that is not
\* NOBITS.
C24_ZeroesPaddingOnly ==
  lpc = "padded" =>
    /\ \A k \in 1..Len(memsets) :
         /\ memsets[k].pos >= 0
         /\ memsets[k].len >= 0
         /\ memsets[k].pos + memsets[k].len <= fileoff
    /\ \A b \in EdgeBytes : Zeroed(b) <=> InPadding(b)
    /\ \A k \in 1..Len(memsets) : \A i \in 1..Len(chunks) :
         chunks[i].sh_type # SHT_NOBITS
           => \/ memsets[k].pos + memsets[k].len <= chunks[i].sh_offset
              \/ chunks[i].sh_offset + chunks[i].sh_size <= memsets[k].pos

\* C24 witness: padding was cleared; there is a gap of more than one byte
\* before a chunk, and a NOBITS chunk of non-zero size is followed by a
\* chunk with bytes in the file.
C24_Witness ==
  /\ lpc = "padded"
  /\ \E k \in 1..Len(memsets) : memsets[k].len > 1
  /\ \E i \in 1..(Len(chunks) - 1) :
       /\ chunks[i].sh_type = SHT_NOBITS /\ chunks[i].sh_size > 0
       /\ chunks[i + 1].sh_type # SHT_NOBITS /\ chunks[i + 1].sh_size > 0

(***************************************************************************)
(* The slicing of ctx.objs in bin_sections: unit, then the loop of split. *)
(***************************************************************************)

MaxObjs == 260

\* ctx.objs of a link of n objects; object k is named k.
InitSlices ==
  /\ \E n \in 1..MaxObjs : objs = [k \in 1..n |-> k]
  /\ dsos = << >>
  /\ sections = << >>
  /\ groups = << >>
  /\ sizes = [j \in OsecIdx |-> 0]
  /\ members = [j \in OsecIdx |-> << >>]
  /\ sym = << >> /\ errors = {}
  /\ todo = << >>
  /\ bpc = "bin_sections"
  /\ span = << >> /\ split_vec = << >> /\ spc = "idle"

\* bin_sections calls split(ctx.objs, unit): span is the whole input.
SplitCall ==
  /\ spc = "idle"
  /\ Len(objs) > 0
  /\ span' = objs
  /\ split_vec' = << >>
  /\ spc' = "while"
  /\ UNCHANGED <<layoutVars, ctxVars, resolveVars, verVars, binVars,
                 scanVars, sizeVars, scriptVars, comdatVars, aws, memsets>>

\* One turn of while (span.size() >= unit).
SplitStep ==
  /\ spc = "while"
  /\ Len(span) >= unit
  /\ split_vec' = Append(split_vec, SubSeq(span, 1, unit))
  /\ span' = SubSeq(span, unit + 1, Len(span))
  /\ UNCHANGED spc
  /\ UNCHANGED <<layoutVars, ctxVars, resolveVars, verVars, binVars,
                 scanVars, sizeVars, scriptVars, comdatVars, aws, memsets>>

\* The loop is left: the rest of span, if any, is the last slice.
SplitReturn ==
  /\ spc = "while"
  /\ Len(span) < unit
  /\ split_vec' = IF span # << >> THEN Append(split_vec, span) ELSE split_vec
  /\ spc' = "returned"
  /\ UNCHANGED span
  /\ UNCHANGED <<layoutVars, ctxVars, resolveVars, verVars, binVars,
                 scanVars, sizeVars, scriptVars, comdatVars, aws, memsets>>

NextSlices == SplitCall \/ SplitStep \/ SplitReturn

StartSlices ==
  /\ InitSlices
  /\ IdleResolve /\ IdleVer /\ IdleLayout
  /\ IdleScan /\ IdleSize /\ IdleScript /\ IdleComdat
  /\ aws = << >> /\ memsets = << >>

\* The thread that runs bin_sections keeps running.
SpecSlices == StartSlices /\ [][NextSlices]_vars /\ WF_vars(NextSlices)

\* The slices so far are pieces of unit objects of ctx.objs, one after
\* another from its start, and span is what is left of it.
SlicesSoFar ==
  spc = "while" =>
    /\ \A i \in 1..Len(split_vec) :
         split_vec[i] = SubSeq(objs, (i - 1) * unit + 1, i * unit)
    /\ span = SubSeq(objs, Len(split_vec) * unit + 1, Len(objs))

\* At the return: at most 128 slices, none empty, all but the last of unit
\* objects, each a contiguous piece of ctx.objs that starts where the one
\* before ended, the first at the start and the last at the end of it.
SlicesReturned ==
  spc = "returned" =>
    /\ Len(split_vec) <= 128
    /\ Len(split_vec) >= 1
    /\ \A i \in 1..Len(split_vec) : Len(split_vec[i]) >= 1
    /\ \A i \in 1..(Len(split_vec) - 1) : Len(split_vec[i]) = unit
    /\ \A i \in 1..Len(split_vec) :
         split_vec[i] = SubSeq(objs, (i - 1) * unit + 1,
                         (i - 1) * unit + Len(split_vec[i]))
    /\ (Len(split_vec) - 1) * unit + Len(split_vec[Len(split_vec)]) = Len(objs)

\* C25: for every non-empty ctx.objs the slicing of bin_sections (unit,
\* then split) comes to its return, with at most 128 slices, none of them
\* empty, every one but the last of exactly unit objects, and the slices
\* in index order, one after another, being ctx.objs.
C25_SlicesPartitionObjs ==
  /\ [](SlicesSoFar /\ SlicesReturned)
  /\ <>(spc = "returned")

\* C25 witness: 259 objects were cut into 87 slices, the first 86 of 3
\* objects and the last of one; the first ends with object 3, the last is
\* object 259.
C25_Witness ==
  /\ spc = "returned"
  /\ Len(objs) > 2 * 128
  /\ unit = 3
  /\ Len(split_vec) > 1
  /\ split_vec[1][unit] = objs[unit]
  /\ Len(split_vec[Len(split_vec)]) = 1
  /\ split_vec[Len(split_vec)][1] = objs[Len(objs)]
=============================================================================
